---- MODULE Spec2Model ----
(***************************************************************************)
(* Pre-patch workflow engine: the backup lifecycle manager                 *)
(* (core/services/ami_backup_service.py), the resource state manager       *)
(* (core/services/server_manager_service.py) and their state models        *)
(* (core/models/ami_backup.py, core/models/server_operation.py).           *)
(*                                                                         *)
(* The EC2 client is an injected collaborator: each of its calls is a      *)
(* suspension point whose outcome (an answer or an exception) is chosen by *)
(* the environment.  Texts (error reasons, exception messages) are         *)
(* sequences of words, so that "contains" and "non-empty" are computed.    *)
(***************************************************************************)
EXTENDS Integers, Sequences, FiniteSets, TLC

\* ------------------------------------------------------------------ bounds
NumInstances == 3
MaxConcurrent == 2
MaxTimeoutMinutes == 2
MaxStartClock == 2
MaxPhaseTasks == 1
MaxLandingZones == 2
MaxImages == 3
MaxDay == 1

\* ------------------------------------------------------ program constants
\* wait_for_state: check_interval = 15 (seconds), timeout_minutes default 10
StateCheckInterval == 15
StateTimeoutMinutes == 10
\* asyncio.sleep(30) once the instance runs; asyncio.sleep(10) after a reboot
ReadySleep == 30
RestartSleep == 10

\* wait_for_completion: check_interval = 30 (seconds)
BackupCheckInterval == 30
\* _update_backup_progress: "assume average backup takes 20 minutes"
EstimatedTotalMinutes == 20

\* ------------------------------------------------------------- vocabulary
None == "None"

\* a datetime field that is not set (Optional[datetime] = None)
NoTime == -1

\* BackupStatus (core/models/ami_backup.py:10-18)
BackupStatus ==
  {"pending", "creating", "available", "failed", "cancelled", "deregistered", "error"}

\* InstanceStatus values the callers hand in
InstanceStatus ==
  {"running", "stopped", "stopping", "starting", "pending", "shutting-down",
   "terminated", "terminating", "unknown"}

\* instance states handed to the batches of the model
StatusInputs == {"stopped", "running", "pending", "terminated"}

\* what describe_instance answers: an AWS state name, or None (not found)
AwsStates ==
  {"pending", "running", "shutting-down", "terminated", "stopping", "stopped", "rebooting"}

OperationType == {"start", "stop", "restart"}

\* OperationStatus (core/models/server_operation.py:22-30)
OperationStatus ==
  {"pending", "running", "completed", "failed", "cancelled", "timeout", "skipped"}

\* str(e) of the exceptions the client raises
ExceptionTexts == {<<"transport", "error">>}

NoAmiIdText == <<"No", "AMI", "ID", "returned", "from", "create_image", "call">>

\* f"Failed to create AMI: {str(e)}"
FailedToCreateText(e) == <<"Failed", "to", "create", "AMI:">> \o e

\* ------------------------------------------------------------ AMIBackup
\* AMIBackup(...) as built by the service: status PENDING, no ami_id
NewBackup(instance) ==
  [instance_id |-> instance, status |-> "pending", ami_id |-> None,
   error_message |-> None, current_step |-> "pending", progress_percentage |-> 0,
   start_time |-> NoTime]

mark_started(b, t) ==
  [b EXCEPT !.status = "creating", !.start_time = t,
            !.current_step = "creating_ami", !.progress_percentage = 10]

mark_completed(b, ami) ==
  [b EXCEPT !.status = "available", !.ami_id = ami,
            !.current_step = "completed", !.progress_percentage = 100]

mark_failed(b, msg) ==
  [b EXCEPT !.status = "failed", !.error_message = msg, !.current_step = "failed"]

Min(a, b) == IF a <= b THEN a ELSE b
Max(a, b) == IF a >= b THEN a ELSE b

update_progress(b, pct, step) ==
  [b EXCEPT !.progress_percentage = Min(100, Max(0, pct)), !.current_step = step]

is_failed(b) == b.status \in {"failed", "error", "cancelled"}

is_completed(b) == b.status = "available"

\* variant: a backup not yet started counts as in progress
is_in_progress_or_pending(b) == b.status \in {"pending", "creating"}

is_in_progress(b) == b.status = "creating"

\* ------------------------------------------------------------------ state
VARIABLES
  mode,            \* which operation of the managers the run exercises
  instances,       \* the input list: index -> [requires_backup, status]
  max_concurrent,  \* the batch's max_concurrent argument
  wait_for_ready,  \* the wait_for_ready argument of start / restart
  target_state,    \* the target_state argument of wait_for_state
  timeout_minutes, \* the timeout_minutes argument of the wait
  image_answers,   \* what the environment may answer to describe_image
  regions,         \* the input list: index -> instance.region
  configure_writes_on_call,  \* the client stores the region when configure_for_region
                   \* is called (TRUE) or when it returns (FALSE)
  client_region,   \* the region the shared EC2 client is configured for
  call_region,     \* per task: client_region when its create / start / stop call was issued
  batch_pc,        \* "idle", "gather", "returned"
  eligible,        \* the filtered list (instances_to_backup / startable / stoppable)
  semaphore,       \* value of asyncio.Semaphore(max_concurrent)
  pc,              \* per task: its position
  backup,          \* per task: the AMIBackup create_backup builds
  results,         \* per task: what the call returned or raised (gather collects it)
  batch_out,       \* the list the batch returns
  active_backups,  \* _active_backups: tasks whose backup is tracked
  op,              \* per task: the ServerOperation of start / stop / restart
  issued,          \* per task: create_image / start / stop / reboot calls issued
  active_operations,  \* _active_operations: tasks whose operation is registered
  operation_history,  \* _operation_history
  current_state,   \* per task: the state the last poll of wait_for_state saw
  aws_state,       \* per task: what the describe call of the last poll gave
  timeout_time,    \* per task: the deadline of the wait in progress
  now,             \* the clock (seconds)
  wf_config,       \* the WorkflowConfig load_workflow_config gave
  cancelled_is_exception,  \* asyncio.CancelledError derives from Exception
  wf_pc,           \* position of run_prepatch_workflow
  workflow_status, \* workflow_result.status
  active_workflows,     \* keys of _active_workflows / _workflow_contexts
  cancellation_tokens,  \* _cancellation_tokens: workflow id -> flag
  phase_index,     \* position of the loop over config.phases
  phase_results,   \* workflow_result.phase_results: phase -> status
  completed_phases,     \* workflow_result.completed_phases
  started,         \* the phases run_workflow_phase began to execute, in order
  tasks_left,      \* per-resource work of the phase in flight still running
  cancelled_at,    \* Len(started) when cancel_workflow first returned True
  scan_outcomes,   \* per landing zone scanned: "error" or how many instances it gave
  context_instances,    \* len(context.instances)
  found_images,    \* the images describe_images has for the instance
  max_backups,     \* the max_backups argument of cleanup_old_backups
  max_age_days,    \* the max_age_days argument of cleanup_old_backups
  cleanup_pc,      \* position of cleanup_old_backups
  cleanup_backups, \* its local list backups, once sorted
  cleanup_i,       \* its loop index (counted from 1)
  deleted_amis,    \* its local list deleted_amis
  deregister_calls,     \* the ami ids deregister_ami was called with, in order
  deregister_failed,    \* the ami ids whose deregister_ami call raised
  cleanup_result,  \* the list cleanup_old_backups returned
  validation_enabled,        \* context.config.validation.enabled
  fail_on_validation_error,  \* context.config.validation.fail_on_validation_error
  validation_pc,   \* position of run_workflow_phase(VALIDATION)
  validation_i,    \* the instance the loop of _run_validation_phase is at
  health_checked,  \* the instances validate_instance_health was called with, in order
  validation_results,   \* its local list validation_results
  validation_errors,    \* phase_result.errors
  validation_status     \* phase_result.status

inputVars ==
  <<mode, instances, max_concurrent, wait_for_ready, target_state, timeout_minutes,
    image_answers, regions, configure_writes_on_call>>
clientVars == <<client_region, call_region>>
batchVars == <<batch_pc, eligible, batch_out>>
backupVars == <<backup, active_backups>>
opVars == <<op, issued, active_operations, operation_history>>
waitVars == <<current_state, aws_state, timeout_time, now>>
wfInputVars == <<wf_config, cancelled_is_exception>>
wfVars ==
  <<wfInputVars, wf_pc, workflow_status, active_workflows, cancellation_tokens,
    phase_index, phase_results, completed_phases, started, tasks_left, cancelled_at,
    scan_outcomes, context_instances>>
contextVars == <<scan_outcomes, context_instances>>

cleanupInputVars == <<found_images, max_backups, max_age_days>>
cleanupVars ==
  <<cleanupInputVars, cleanup_pc, cleanup_backups, cleanup_i, deleted_amis,
    deregister_calls, deregister_failed, cleanup_result>>

validationInputVars == <<validation_enabled, fail_on_validation_error>>
validationVars ==
  <<validationInputVars, validation_pc, validation_i, health_checked, validation_results,
    validation_errors, validation_status>>

otherWfVars ==
  <<inputVars, clientVars, batchVars, semaphore, pc, results, backupVars, opVars, waitVars,
    wfInputVars, cleanupVars, validationVars>>

vars ==
  <<inputVars, clientVars, batchVars, semaphore, pc, results, backupVars, opVars, waitVars, wfVars,
    cleanupVars, validationVars>>

Tasks == 1..NumInstances

NoResult == [kind |-> "none"]
ExceptionResult(e) == [kind |-> "exception", text |-> e]
BackupResult(b) == [kind |-> "backup", backup |-> b]
OperationResultOf(r) == [kind |-> "operation_result", result |-> r]

\* the run is one of the three fan-out batches
BatchModes == {"backup", "start", "stop"}

\* positions of a task inside a call of the EC2 client
ExternalCallPcs ==
  {"configure_for_region", "create_image", "start_instances", "stop_instances",
   "reboot_instances", "describe_instance"}

InFlight == {t \in Tasks : pc[t] \in ExternalCallPcs}

\* [inst for inst in instances if <keep>], as the indices kept, in order;
\* keep[i] is the value of the test on the i-th instance
RECURSIVE FilterIdx(_, _)
FilterIdx(keep, i) ==
  IF i > Len(keep) THEN <<>>
  ELSE (IF keep[i] THEN <<i>> ELSE <<>>) \o FilterIdx(keep, i + 1)

\* variant: the filter of line 67 keeps every instance
requires_backup_any(inst) == TRUE
requires_backup(inst) == inst.requires_backup

\* the permit of "async with semaphore" goes back when the task leaves the block
Release == semaphore' = IF mode \in BatchModes THEN semaphore + 1 ELSE semaphore

\* variant: "async with semaphore" never blocks
CanAcquireAlways == TRUE

\* the guard of "async with semaphore"
CanAcquire == semaphore > 0

\* `await self.ec2_client.configure_for_region(region)` on the client every
\* task shares: the client is configured for the region from some moment of
\* the call on, here from its start or from its return
configure_for_region_called(region) ==
  IF configure_writes_on_call THEN region ELSE client_region

configure_for_region_returned(region) ==
  IF configure_writes_on_call THEN client_region ELSE region

\* filter, early return, semaphore and one task per kept instance
\* (ami_backup_service.py:66-84, server_manager_service.py:93-114, 146-167)
FanOut(todo) ==
  /\ batch_pc = "idle"
  /\ eligible' = todo
  /\ IF todo = <<>>
       THEN /\ batch_pc' = "returned"
            /\ batch_out' = <<>>
            /\ UNCHANGED <<semaphore, pc>>
       ELSE /\ batch_pc' = "gather"
            /\ semaphore' = max_concurrent
            /\ pc' = [t \in Tasks |-> IF t <= Len(todo) THEN "queued" ELSE "unused"]
            /\ UNCHANGED batch_out
  /\ UNCHANGED <<inputVars, clientVars, cleanupVars, validationVars, wfVars, results, backupVars, opVars, waitVars>>

\* ------------------------------------------------- create_multiple_backups
create_multiple_backups ==
  /\ mode = "backup"
  /\ FanOut(FilterIdx([i \in Tasks |-> requires_backup(instances[i])], 1))

\* create_backup_with_semaphore, lines 78-80, into create_backup up to its
\* first await (configure_for_region, line 46)
create_backup_begin(t) ==
  /\ mode = "backup"
  /\ batch_pc = "gather"
  /\ pc[t] = "queued"
  /\ CanAcquire
  /\ semaphore' = semaphore - 1
  /\ backup' = [backup EXCEPT ![t] = NewBackup(eligible[t])]
  /\ pc' = [pc EXCEPT ![t] = "configure_for_region"]
  /\ client_region' = configure_for_region_called(regions[eligible[t]])
  /\ UNCHANGED <<inputVars, call_region, cleanupVars, validationVars, wfVars, batchVars, results, active_backups, opVars, waitVars>>

\* configure_for_region raised: create_backup's except logs and re-raises
create_backup_configure_raises(t) ==
  /\ mode = "backup"
  /\ pc[t] = "configure_for_region"
  /\ \E e \in ExceptionTexts :
       results' = [results EXCEPT ![t] = ExceptionResult(e)]
  /\ pc' = [pc EXCEPT ![t] = "done"]
  /\ Release
  /\ UNCHANGED <<inputVars, clientVars, cleanupVars, validationVars, wfVars, batchVars, backupVars, opVars, waitVars>>

\* configure_for_region returned: _execute_backup marks the backup started and
\* issues create_image (lines 290-311)
execute_backup_begin(t) ==
  /\ mode = "backup"
  /\ pc[t] = "configure_for_region"
  /\ backup' = [backup EXCEPT ![t] = mark_started(@, now)]
  /\ pc' = [pc EXCEPT ![t] = "create_image"]
  /\ issued' = [issued EXCEPT ![t] = @ + 1]
  /\ client_region' = configure_for_region_returned(regions[eligible[t]])
  /\ call_region' = [call_region EXCEPT ![t] = client_region']
  /\ UNCHANGED <<inputVars, cleanupVars, validationVars, wfVars, batchVars, semaphore, results, active_backups, op,
                 active_operations, operation_history, waitVars>>

\* variant: the ImageId of the answer is not recorded on the backup
ami_created_unrecorded(b, ami) == update_progress(b, 50, "ami_created")

\* the backup after create_image answered with an ImageId (lines 317-319)
ami_created(b, ami) == update_progress([b EXCEPT !.ami_id = ami], 50, "ami_created")

\* create_image answered with an ImageId: the backup is tracked and returned
\* (lines 313-321, 51-54)
execute_backup_returns(t) ==
  /\ mode = "backup"
  /\ pc[t] = "create_image"
  /\ LET b == ami_created(backup[t], "ami") IN
       /\ backup' = [backup EXCEPT ![t] = b]
       /\ results' = [results EXCEPT ![t] = BackupResult(b)]
  /\ active_backups' = active_backups \cup {t}
  /\ pc' = [pc EXCEPT ![t] = "done"]
  /\ Release
  /\ UNCHANGED <<inputVars, clientVars, cleanupVars, validationVars, wfVars, batchVars, opVars, waitVars>>

\* create_image raised, or answered without an ImageId: the backup is marked
\* failed and the exception goes up through create_backup (lines 314-315, 323-325)
execute_backup_raises(t) ==
  /\ mode = "backup"
  /\ pc[t] = "create_image"
  /\ \E e \in ExceptionTexts \cup {NoAmiIdText} :
       /\ backup' = [backup EXCEPT ![t] = mark_failed(@, FailedToCreateText(e))]
       /\ results' = [results EXCEPT ![t] = ExceptionResult(e)]
  /\ pc' = [pc EXCEPT ![t] = "done"]
  /\ Release
  /\ UNCHANGED <<inputVars, clientVars, cleanupVars, validationVars, wfVars, batchVars, active_backups, opVars, waitVars>>

\* variant: the record of lines 94-99 without the mark_failed of line 100
failed_backup_unmarked(instance, e) == NewBackup(instance)

\* lines 94-101: the failed record built for a task that raised
failed_backup(instance, e) == mark_failed(NewBackup(instance), e)

\* variant: the records of the tasks that raised are appended after the
\* backups of the tasks that returned
ProcessBackupResults_failures_last ==
  LET n == Len(eligible)
      returned == FilterIdx([i \in 1..n |-> results[i].kind # "exception"], 1)
      raised == FilterIdx([i \in 1..n |-> results[i].kind = "exception"], 1)
  IN [k \in 1..Len(returned) |-> results[returned[k]].backup]
     \o [k \in 1..Len(raised) |->
           failed_backup(eligible[raised[k]], results[raised[k]].text)]

\* lines 86-104: one Backup per gathered result, in task order
ProcessBackupResults ==
  [i \in 1..Len(eligible) |->
     IF results[i].kind = "exception"
       THEN failed_backup(eligible[i], results[i].text)
       ELSE results[i].backup]

\* every task of the batch has ended: gather hands the results over
GatherDone ==
  /\ batch_pc = "gather"
  /\ \A t \in 1..Len(eligible) : pc[t] = "done"

\* gather is over: lines 84-109
create_multiple_backups_return ==
  /\ mode = "backup"
  /\ GatherDone
  /\ batch_out' = ProcessBackupResults
  /\ batch_pc' = "returned"
  /\ UNCHANGED <<inputVars, clientVars, cleanupVars, validationVars, wfVars, eligible, semaphore, pc, results, backupVars, opVars,
                 waitVars>>

\* ------------------------------------------------------- ServerOperation
\* variant: every operation aims at Running
target_state_of_running(ty) == "running"

\* ServerOperation.__post_init__: target_state from the operation type
target_state_of(ty) ==
  CASE ty = "start" -> "running"
    [] ty = "stop" -> "stopped"
    [] ty = "restart" -> "running"

NewOperation(instance, ty) ==
  [instance_id |-> instance, operation_type |-> ty,
   target_state |-> target_state_of(ty), status |-> "pending", error_message |-> None]

\* The status setters the service calls on a ServerOperation (mark_started,
\* mark_completed, mark_failed, mark_cancelled): the Operation state machine
\* Pending -> Running -> {Completed | Failed | Cancelled}
op_mark_started(o) == [o EXCEPT !.status = "running"]
op_mark_completed(o) == [o EXCEPT !.status = "completed"]
op_mark_failed(o, msg) == [o EXCEPT !.status = "failed", !.error_message = msg]
op_mark_cancelled(o, msg) == [o EXCEPT !.status = "cancelled", !.error_message = msg]

OperationTerminal == {"completed", "failed", "timeout", "cancelled"}

\* OperationResult as the service builds it
CompletedResult(ready) ==
  [status |-> "completed", error_message |-> None, ready |-> ready]
FailedResult(msg) ==
  [status |-> "failed", error_message |-> msg, ready |-> FALSE]

NotRunningText ==
  <<"Instance", "failed", "to", "reach", "running", "state">>
NotReadyAfterRestartText ==
  <<"Instance", "failed", "to", "be", "ready", "after", "restart">>
CancelledByUserText == <<"Operation", "cancelled", "by", "user">>

\* the calls made directly on the manager (one caller, task 1)
SingleModes == {"start_instance", "stop_instance", "restart_instance"}
OpModes == {"start", "stop"} \cup SingleModes

OpTypeOf(m) ==
  CASE m \in {"start", "start_instance"} -> "start"
    [] m \in {"stop", "stop_instance"} -> "stop"
    [] m = "restart_instance" -> "restart"

\* the client call of an operation type (lines 375, 407-409, 426)
ClientCallOf(ty) ==
  CASE ty = "start" -> "start_instances"
    [] ty = "stop" -> "stop_instances"
    [] ty = "restart" -> "reboot_instances"

\* the id of the instance task t works on
InstanceOf(t) == IF mode \in BatchModes THEN eligible[t] ELSE t

\* _map_aws_state_to_status (lines 563-574)
map_aws_state_to_status(name) ==
  CASE name = "pending" -> "pending"
    [] name = "running" -> "running"
    [] name = "shutting-down" -> "stopping"
    [] name = "terminated" -> "terminated"
    [] name = "stopping" -> "stopping"
    [] name = "stopped" -> "stopped"
    [] OTHER -> "unknown"

\* get_instance_state (lines 193-211): the answer of the client is an AWS state
\* name, None (no such instance) or "raise" (configure_for_region or
\* describe_instance raised)
get_instance_state(answer) ==
  IF answer \in {None, "raise"} THEN "unknown" ELSE map_aws_state_to_status(answer)

DescribeAnswers == AwsStates \cup {None, "raise"}

\* the states on which wait_for_state gives up at once (line 293)
ErrorStates == {"terminated", "unknown"}

\* variant: any state that is not an error state counts as the target
wait_for_state_check_eager(current, target) ==
  IF current \in ErrorStates THEN "return_false" ELSE "return_true"

\* variant: the loop without the error-state test of lines 293-295
wait_for_state_check_slow(current, target) ==
  IF current = target THEN "return_true" ELSE "sleep"

\* one iteration of wait_for_state's loop on the state just read (lines 288-298)
wait_for_state_check(current, target) ==
  IF current = target THEN "return_true"
  ELSE IF current \in ErrorStates THEN "return_false"
  ELSE "sleep"

\* the finally block of _execute_operation and its return (lines 346-348, 365-368)
Finish(t, o, r) ==
  /\ op' = [op EXCEPT ![t] = o]
  /\ results' = [results EXCEPT ![t] = OperationResultOf(r)]
  /\ operation_history' = Append(operation_history, t)
  /\ active_operations' = active_operations \ {t}
  /\ pc' = [pc EXCEPT ![t] = "done"]
  /\ Release
  /\ UNCHANGED issued

\* the operation's call chain returned r: mark_completed, then the finally block
\* (lines 345-348)
execute_operation_completes(t, r) == Finish(t, op_mark_completed(op[t]), r)

\* variant: _execute_start_operation / _execute_restart_operation go on to the
\* readiness sleep whatever wait_for_state returned
WaitReturns_unchecked(t, v) ==
  IF mode = "wait_for_state"
    THEN /\ results' = [results EXCEPT ![t] = [kind |-> "bool", value |-> v]]
         /\ pc' = [pc EXCEPT ![t] = "done"]
         /\ UNCHANGED <<semaphore, opVars>>
    ELSE /\ pc' = [pc EXCEPT ![t] = "ready_sleep"]
         /\ UNCHANGED <<results, semaphore, opVars>>

\* wait_for_state hands v back to its caller: to the caller of the manager, or to
\* _execute_start_operation / _execute_restart_operation (lines 390-396, 444-450)
WaitReturns(t, v) ==
  IF mode = "wait_for_state"
    THEN /\ results' = [results EXCEPT ![t] = [kind |-> "bool", value |-> v]]
         /\ pc' = [pc EXCEPT ![t] = "done"]
         /\ UNCHANGED <<semaphore, opVars>>
    ELSE IF v
      THEN /\ pc' = [pc EXCEPT ![t] = "ready_sleep"]
           /\ UNCHANGED <<results, semaphore, opVars>>
      ELSE execute_operation_completes(t,
             FailedResult(IF op[t].operation_type = "restart"
                            THEN NotReadyAfterRestartText ELSE NotRunningText))

\* "while datetime.utcnow() < timeout_time" at clock c with deadline d (lines
\* 284, 304-306).  Inside a batch the clock is not modelled: after a sleep the
\* deadline may or may not have passed.
LoopHead(t, c, d, first) ==
  \E open \in (IF mode \in BatchModes /\ ~first THEN BOOLEAN ELSE {c < d}) :
    IF open
      THEN /\ pc' = [pc EXCEPT ![t] = "describe_instance"]
           /\ UNCHANGED <<results, semaphore, opVars>>
      ELSE WaitReturns(t, FALSE)

\* asyncio.sleep(s) on the clock
Sleep(s) == now' = IF mode \in BatchModes THEN now ELSE now + s

\* ------------------------------------------------- start / stop / restart
\* start_instance / stop_instance / restart_instance build the operation and
\* enter _execute_operation up to its first await: the operation is registered
\* and marked started, then configure_for_region is awaited (lines 327-333).
\* No check of the instance's state is made on the way.
execute_operation_begin(t, ty) ==
  /\ OpTypeOf(mode) = ty
  /\ IF mode \in BatchModes
       THEN /\ batch_pc = "gather"
            /\ pc[t] = "queued"
            /\ CanAcquire
            /\ semaphore' = semaphore - 1
       ELSE /\ pc[t] = "call"
            /\ UNCHANGED semaphore
  /\ op' = [op EXCEPT ![t] = op_mark_started(NewOperation(InstanceOf(t), ty))]
  /\ active_operations' = active_operations \cup {t}
  /\ pc' = [pc EXCEPT ![t] = "configure_for_region"]
  /\ client_region' = configure_for_region_called(regions[InstanceOf(t)])
  /\ UNCHANGED <<inputVars, call_region, cleanupVars, validationVars, wfVars, batchVars, results, backupVars, issued,
                 operation_history, waitVars>>

start_instance(t) == mode \in {"start", "start_instance"} /\ execute_operation_begin(t, "start")

stop_instance(t) == mode \in {"stop", "stop_instance"} /\ execute_operation_begin(t, "stop")

restart_instance(t) == mode = "restart_instance" /\ execute_operation_begin(t, "restart")

\* configure_for_region returned: the client call of the operation is issued
\* (lines 336-341, 375, 407-409, 426)
execute_operation_call(t) ==
  /\ mode \in OpModes
  /\ pc[t] = "configure_for_region"
  /\ pc' = [pc EXCEPT ![t] = ClientCallOf(op[t].operation_type)]
  /\ issued' = [issued EXCEPT ![t] = @ + 1]
  /\ client_region' = configure_for_region_returned(regions[InstanceOf(t)])
  /\ call_region' = [call_region EXCEPT ![t] = client_region']
  /\ UNCHANGED <<inputVars, cleanupVars, validationVars, wfVars, batchVars, semaphore, results, backupVars, op,
                 active_operations, operation_history, waitVars>>

\* configure_for_region or the client call raised: the except block marks the
\* operation failed and a FAILED result is returned (lines 350-368)
execute_operation_raises(t) ==
  /\ mode \in OpModes
  /\ pc[t] \in {"configure_for_region", "start_instances", "stop_instances",
                "reboot_instances"}
  /\ \E e \in ExceptionTexts :
       Finish(t, op_mark_failed(op[t], e), FailedResult(e))
  /\ UNCHANGED <<inputVars, clientVars, cleanupVars, validationVars, wfVars, batchVars, backupVars, waitVars>>

\* start_instance / stop_instance raises while it builds the operation (lines
\* 34-45, 53-64), before _execute_operation is entered: inside a batch the
\* exception leaves the task through "async with semaphore" and gather hands it
\* back as the task's result (lines 108-114, 161-167)
operation_task_raises(t) ==
  /\ mode \in {"start", "stop"}
  /\ batch_pc = "gather"
  /\ pc[t] = "queued"
  /\ CanAcquire
  /\ \E e \in ExceptionTexts : results' = [results EXCEPT ![t] = ExceptionResult(e)]
  /\ pc' = [pc EXCEPT ![t] = "done"]
  /\ UNCHANGED <<inputVars, clientVars, cleanupVars, validationVars, wfVars, batchVars, semaphore, backupVars, opVars, waitVars>>

\* stop_instances returned (lines 411-419, 345-348)
execute_stop_operation(t) ==
  /\ mode \in OpModes
  /\ pc[t] = "stop_instances"
  /\ execute_operation_completes(t, CompletedResult(FALSE))
  /\ UNCHANGED <<inputVars, clientVars, cleanupVars, validationVars, wfVars, batchVars, backupVars, waitVars>>

\* the deadline wait_for_state fixes on entry (line 281)
DeadlineOf(c, minutes) == c + minutes * 60

\* start_instances returned (lines 377-390): without wait_for_ready the
\* operation completes, with it wait_for_state(RUNNING) is entered
execute_start_operation(t) ==
  /\ mode \in OpModes
  /\ pc[t] = "start_instances"
  /\ IF wait_for_ready
       THEN /\ timeout_time' =
                 [timeout_time EXCEPT ![t] = DeadlineOf(now, StateTimeoutMinutes)]
            /\ LoopHead(t, now, DeadlineOf(now, StateTimeoutMinutes), TRUE)
       ELSE /\ execute_operation_completes(t, CompletedResult(FALSE))
            /\ UNCHANGED timeout_time
  /\ UNCHANGED <<inputVars, clientVars, cleanupVars, validationVars, wfVars, batchVars, backupVars, current_state, aws_state, now>>

\* reboot_instances returned (lines 428-441): without wait_for_ready the
\* operation completes, with it the task sleeps 10 s before it waits
execute_restart_operation(t) ==
  /\ mode \in OpModes
  /\ pc[t] = "reboot_instances"
  /\ IF wait_for_ready
       THEN /\ pc' = [pc EXCEPT ![t] = "restart_sleep"]
            /\ UNCHANGED <<results, semaphore, opVars>>
       ELSE execute_operation_completes(t, CompletedResult(FALSE))
  /\ UNCHANGED <<inputVars, clientVars, cleanupVars, validationVars, wfVars, batchVars, backupVars, waitVars>>

\* the 10 s are over: wait_for_state(RUNNING) is entered (line 444)
restart_sleep_done(t) ==
  /\ mode \in OpModes
  /\ pc[t] = "restart_sleep"
  /\ Sleep(RestartSleep)
  /\ timeout_time' = [timeout_time EXCEPT ![t] = DeadlineOf(now', StateTimeoutMinutes)]
  /\ LoopHead(t, now', DeadlineOf(now', StateTimeoutMinutes), TRUE)
  /\ UNCHANGED <<inputVars, clientVars, cleanupVars, validationVars, wfVars, batchVars, backupVars, current_state, aws_state>>

\* the target of the wait in progress
TargetOf(t) == IF mode = "wait_for_state" THEN target_state ELSE "running"

\* wait_for_state called on the manager (lines 275-284)
wait_for_state(t) ==
  /\ mode = "wait_for_state"
  /\ pc[t] = "call"
  /\ timeout_time' = [timeout_time EXCEPT ![t] = DeadlineOf(now, timeout_minutes)]
  /\ LoopHead(t, now, DeadlineOf(now, timeout_minutes), TRUE)
  /\ UNCHANGED <<inputVars, clientVars, cleanupVars, validationVars, wfVars, batchVars, backupVars, current_state, aws_state, now>>

\* current_state, the local of wait_for_state; a batch does not keep it once
\* the iteration has used it
Observed(current) == IF mode \in BatchModes THEN None ELSE current

\* get_instance_state configured the client and describe_instance answered
\* (lines 197-200): one iteration of the loop (lines 286-302)
wait_for_state_poll(t) ==
  /\ mode \in OpModes \cup {"wait_for_state"}
  /\ pc[t] = "describe_instance"
  /\ \E answer \in DescribeAnswers :
       LET current == get_instance_state(answer)
           verdict == wait_for_state_check(current, TargetOf(t)) IN
         /\ current_state' = [current_state EXCEPT ![t] = Observed(current)]
         /\ aws_state' = [aws_state EXCEPT ![t] = Observed(answer)]
         /\ CASE verdict = "return_true" -> WaitReturns(t, TRUE)
              [] verdict = "return_false" -> WaitReturns(t, FALSE)
              [] verdict = "sleep" ->
                   /\ pc' = [pc EXCEPT ![t] = "poll_sleep"]
                   /\ UNCHANGED <<results, semaphore, opVars>>
  /\ client_region' = regions[InstanceOf(t)]
  /\ UNCHANGED <<inputVars, call_region, cleanupVars, validationVars, wfVars, batchVars, backupVars, timeout_time, now>>

\* asyncio.sleep(check_interval) is over: back to the loop head (lines 298, 284)
wait_for_state_sleep_done(t) ==
  /\ mode \in OpModes \cup {"wait_for_state"}
  /\ pc[t] = "poll_sleep"
  /\ Sleep(StateCheckInterval)
  /\ LoopHead(t, now', timeout_time[t], FALSE)
  /\ UNCHANGED <<inputVars, clientVars, cleanupVars, validationVars, wfVars, batchVars, backupVars, current_state, aws_state, timeout_time>>

\* the 30 s after the instance was seen running are over (lines 392-393, 446-447)
ready_sleep_done(t) ==
  /\ mode \in OpModes
  /\ pc[t] = "ready_sleep"
  /\ Sleep(ReadySleep)
  /\ execute_operation_completes(t, CompletedResult(TRUE))
  /\ UNCHANGED <<inputVars, clientVars, cleanupVars, validationVars, wfVars, batchVars, backupVars, current_state, aws_state, timeout_time>>

\* cancel_operation (lines 312-319) on a registered operation that is RUNNING;
\* on any other id it returns False and changes nothing
cancel_operation(t) ==
  /\ mode \in SingleModes
  /\ t \in active_operations
  /\ op[t].status = "running"
  /\ op' = [op EXCEPT ![t] = op_mark_cancelled(@, CancelledByUserText)]
  /\ UNCHANGED <<inputVars, clientVars, cleanupVars, validationVars, wfVars, batchVars, semaphore, pc, results, backupVars, issued,
                 active_operations, operation_history, waitVars>>

\* --------------------------------- start_multiple / stop_multiple_instances
startable(inst) == inst.status \in {"stopped", "stopping"}
stoppable(inst) == inst.status \in {"running", "pending"}

start_multiple_instances ==
  /\ mode = "start"
  /\ FanOut(FilterIdx([i \in Tasks |-> startable(instances[i])], 1))

stop_multiple_instances ==
  /\ mode = "stop"
  /\ FanOut(FilterIdx([i \in Tasks |-> stoppable(instances[i])], 1))

\* variant: the results that are exceptions are left out of the list
ProcessOperationResults_dropping ==
  LET kept == FilterIdx([i \in 1..Len(eligible) |-> results[i].kind # "exception"], 1)
  IN  [k \in 1..Len(kept) |-> results[kept[k]].result]

\* lines 116-133, 169-186: one OperationResult per gathered result, in task order
ProcessOperationResults ==
  [i \in 1..Len(eligible) |->
     IF results[i].kind = "exception"
       THEN FailedResult(results[i].text)
       ELSE results[i].result]

\* gather is over (lines 114-138, 167-191)
multiple_instances_return ==
  /\ mode \in {"start", "stop"}
  /\ GatherDone
  /\ batch_out' = ProcessOperationResults
  /\ batch_pc' = "returned"
  /\ UNCHANGED <<inputVars, clientVars, cleanupVars, validationVars, wfVars, eligible, semaphore, pc, results, backupVars, opVars,
                 waitVars>>

\* ------------------------------------------------------ wait_for_completion
TimedOutText == <<"Backup", "operation", "timed", "out">>
AmiNotFoundText == <<"AMI", "not", "found", "in", "AWS">>
\* f"AMI creation failed with state: {aws_state}"
CreationFailedText(state) ==
  <<"AMI", "creation", "failed", "with", "state:", state>>

\* what describe_image can give a status query: the State of the image, None
\* (no such image), or "raise" (configure_for_region or describe_image raised)
ImageAnswers ==
  {"available", "pending", "failed", "error", "invalid", None, "raise"}

\* variant: an exception of the status query fails the backup
get_backup_status_raised_failing(b) ==
  [backup |-> mark_failed(b, AmiNotFoundText), status |-> "failed"]

\* the except block of get_backup_status (lines 180-182): the exception is
\* logged and the status recorded on the backup is returned
get_backup_status_raised(b) == [backup |-> b, status |-> b.status]

\* get_backup_status once the client has answered (lines 157-182): the backup
\* as it leaves the call and the status returned
get_backup_status(b, answer) ==
  CASE answer = "raise" -> get_backup_status_raised(b)
    [] answer = None ->
         [backup |-> IF b.status = "creating" THEN mark_failed(b, AmiNotFoundText) ELSE b,
          status |-> "failed"]
    [] answer = "available" ->
         [backup |-> IF b.status # "available" THEN mark_completed(b, b.ami_id) ELSE b,
          status |-> "available"]
    [] answer = "pending" ->
         [backup |-> [b EXCEPT !.status = "creating"], status |-> "creating"]
    [] answer \in {"failed", "error"} ->
         [backup |-> IF b.status # "failed"
                       THEN mark_failed(b, CreationFailedText(answer)) ELSE b,
          status |-> "failed"]
    [] OTHER ->
         [backup |-> [b EXCEPT !.status = "creating"], status |-> "creating"]

\* min(90.0, elapsed / estimated_total * 90), in whole percent (lines 340-343)
estimated_progress(elapsed) ==
  Min(90, (elapsed * 90) \div (EstimatedTotalMinutes * 60))

\* _update_backup_progress once the client has answered (lines 334-351)
update_backup_progress(b, answer, clock) ==
  CASE answer = "pending" ->
         IF b.start_time # NoTime
           THEN update_progress(b, estimated_progress(clock - b.start_time), "creating")
           ELSE b
    [] answer = "available" -> mark_completed(b, b.ami_id)
    [] answer \in {"failed", "error"} -> mark_failed(b, CreationFailedText(answer))
    [] OTHER -> b

\* what the loop of wait_for_completion does with the status (lines 123-128)
wait_for_completion_check(status) ==
  IF status = "available" THEN "return_true"
  ELSE IF status \in {"failed", "error", "cancelled"} THEN "return_false"
  ELSE "continue"

WaitModes == {"wait_for_completion"}

BoolResult(v) == [kind |-> "bool", value |-> v]

\* variant: the deadline path without the mark_failed of line 142
wait_for_completion_timeout_unmarked(t) ==
  /\ backup' = backup
  /\ results' = [results EXCEPT ![t] = BoolResult(FALSE)]
  /\ pc' = [pc EXCEPT ![t] = "done"]

\* the deadline has passed (lines 140-143)
wait_for_completion_timeout(t) ==
  /\ backup' = [backup EXCEPT ![t] = mark_failed(@, TimedOutText)]
  /\ results' = [results EXCEPT ![t] = BoolResult(FALSE)]
  /\ pc' = [pc EXCEPT ![t] = "done"]

\* the loop has the status of this iteration: return, or go on to
\* _update_backup_progress, which calls describe_image only when the backup has
\* an ami_id, and then to the sleep (lines 123-134)
wait_for_completion_step(t, b, status) ==
  LET verdict == wait_for_completion_check(status) IN
    /\ backup' = [backup EXCEPT ![t] = b]
    /\ CASE verdict = "return_true" ->
              /\ results' = [results EXCEPT ![t] = BoolResult(TRUE)]
              /\ pc' = [pc EXCEPT ![t] = "done"]
         [] verdict = "return_false" ->
              /\ results' = [results EXCEPT ![t] = BoolResult(FALSE)]
              /\ pc' = [pc EXCEPT ![t] = "done"]
         [] verdict = "continue" ->
              /\ pc' = [pc EXCEPT ![t] =
                          IF b.ami_id # None THEN "progress_describe_image" ELSE "sleep"]
              /\ UNCHANGED results

\* "while datetime.utcnow() < timeout_time" at clock c, and get_backup_status up
\* to its first await: without an ami_id it returns backup.status at once
\* (lines 118-121, 147-155)
wait_for_completion_loop(t, c, d) ==
  IF c < d
    THEN IF backup[t].ami_id = None
           THEN wait_for_completion_step(t, backup[t], backup[t].status)
           ELSE /\ pc' = [pc EXCEPT ![t] = "describe_image"]
                /\ UNCHANGED <<backup, results>>
    ELSE wait_for_completion_timeout(t)

\* wait_for_completion is called (lines 111-118)
wait_for_completion(t) ==
  /\ mode \in WaitModes
  /\ pc[t] = "call"
  /\ timeout_time' = [timeout_time EXCEPT ![t] = DeadlineOf(now, timeout_minutes)]
  /\ wait_for_completion_loop(t, now, DeadlineOf(now, timeout_minutes))
  /\ UNCHANGED <<inputVars, clientVars, cleanupVars, validationVars, wfVars, batchVars, semaphore, active_backups, opVars,
                 current_state, aws_state, now>>

\* the client answered the status query of this poll (lines 121-128, 155-182)
wait_for_completion_status(t) ==
  /\ mode \in WaitModes
  /\ pc[t] = "describe_image"
  /\ \E answer \in image_answers :
       LET got == get_backup_status(backup[t], answer) IN
         /\ aws_state' = [aws_state EXCEPT ![t] = answer]
         /\ wait_for_completion_step(t, got.backup, got.status)
  /\ UNCHANGED <<inputVars, clientVars, cleanupVars, validationVars, wfVars, batchVars, semaphore, active_backups, opVars,
                 current_state, timeout_time, now>>

\* the client answered _update_backup_progress; the task goes to sleep
\* (lines 131-134, 332-351)
wait_for_completion_progress(t) ==
  /\ mode \in WaitModes
  /\ pc[t] = "progress_describe_image"
  /\ \E answer \in image_answers :
       backup' = [backup EXCEPT ![t] = update_backup_progress(@, answer, now)]
  /\ pc' = [pc EXCEPT ![t] = "sleep"]
  /\ UNCHANGED <<inputVars, clientVars, cleanupVars, validationVars, wfVars, batchVars, semaphore, results, active_backups, opVars,
                 waitVars>>

\* asyncio.sleep(check_interval) is over: back to the loop head (lines 134, 118)
wait_for_completion_sleep_done(t) ==
  /\ mode \in WaitModes
  /\ pc[t] = "sleep"
  /\ now' = now + BackupCheckInterval
  /\ wait_for_completion_loop(t, now', timeout_time[t])
  /\ UNCHANGED <<inputVars, clientVars, cleanupVars, validationVars, wfVars, batchVars, semaphore, active_backups, opVars,
                 current_state, aws_state, timeout_time>>

\* ---------------------------------------------------- WorkflowOrchestrator
\* WorkflowPhase values the orchestrator dispatches on: Discover, Backup,
\* StateChange, Validate
Phases == {"scanner", "ami_backup", "server_manager", "validation"}

\* the order in which the spec lists the phases
PhaseOrder == <<"scanner", "ami_backup", "server_manager", "validation">>

\* WorkflowStatus (core/models/workflow.py:29-36)
WorkflowStatus ==
  {"pending", "running", "completed", "failed", "cancelled", "partial_success"}

\* PhaseStatus (core/models/workflow.py:19-26); "none": no PhaseResult stored
PhaseStatus == {"pending", "running", "completed", "failed", "skipped", "cancelled"}

\* the one workflow of a run (workflow_id = str(uuid4()))
WorkflowId == 1

\* no configuration: the run does not call the orchestrator
NoWorkflowConfig ==
  [phases |-> <<>>, landing_zones |-> 0, ami_backup_timeout_minutes |-> 0,
   start_timeout_minutes |-> 0, max_concurrent_scans |-> 0,
   continue_on_error |-> FALSE]

\* WorkflowConfig.validate (core/models/config.py:266-288): the errors found.
\* Of the timeouts of the configuration only the backup timeout is looked at.
validate(config) ==
  (IF config.landing_zones = 0 THEN {"At least one landing zone must be configured"}
   ELSE {})
  \cup (IF config.ami_backup_timeout_minutes <= 0
          THEN {"AMI backup timeout must be positive"} ELSE {})
  \cup (IF config.max_concurrent_scans <= 0
          THEN {"Scanner max concurrent scans must be positive"} ELSE {})

\* a second workflow run by the same orchestrator
OtherWorkflowId == WorkflowId + 1

\* _cancellation_tokens = {} (line 46)
NoTokens == [k \in {} |-> FALSE]

\* self._cancellation_tokens[workflow_id] = flag (lines 85, 170)
WithToken(tokens, id, flag) ==
  [k \in DOMAIN tokens \cup {id} |-> IF k = id THEN flag ELSE tokens[k]]

\* self._cancellation_tokens.pop(workflow_id, None) (line 111)
WithoutToken(tokens, id) == [k \in DOMAIN tokens \ {id} |-> tokens[k]]

\* a variant of is_cancelled that never sees the flag
is_cancelled_never(tokens) == FALSE

\* run_workflow_phase reads the cancellation flag before it starts the phase
\* (line 126): self._cancellation_tokens.get(workflow_id, False)
is_cancelled(tokens) ==
  IF WorkflowId \in DOMAIN tokens THEN tokens[WorkflowId] ELSE FALSE

\* len(all_instances) of _run_scanner_phase after the scans with these outcomes
\* (lines 269, 291)
RECURSIVE all_instances(_)
all_instances(outcomes) ==
  IF outcomes = <<>> THEN 0
  ELSE outcomes[1].found + all_instances(Tail(outcomes))

\* variant: the later phases work on a resource set of their own
PhaseResources_own(phase, config, found) ==
  IF phase = "scanner" THEN config.landing_zones ELSE MaxPhaseTasks

\* the most pieces of per-resource work the body of a phase can have:
\*  - scanner: one scan per enabled landing zone (lines 271-274);
\*  - ami_backup: the instances of context.instances that require a backup
\*    (lines 329-338);
\*  - server_manager: those that are stopped or stopping (lines 406-418);
\*  - validation: every instance of context.instances, none when validation is
\*    disabled (lines 468-475).
PhaseResources(phase, config, found) ==
  IF phase = "scanner" THEN config.landing_zones ELSE found

\* The loop of _execute_workflow_phases at position i, with the phase results
\* stored so far and the value of the cancellation flag, up to the next await
\* (lines 237-246, 119-139, 89-95, 99-111).
\*  - past the last phase: the workflow is marked completed and the report is
\*    generated;
\*  - flag set: run_workflow_phase raises CancelledError before it creates the
\*    PhaseResult.  Where CancelledError derives from Exception the handlers of
\*    lines 253 and 99 catch it and the workflow is marked failed; elsewhere it
\*    leaves run_prepatch_workflow through the finally block alone;
\*  - otherwise the PhaseResult is created RUNNING and the phase body is entered
\*    with found instances in context.instances.
execute_workflow_phases(i, stored, cancelled, found) ==
  /\ phase_index' = i
  /\ context_instances' = found
  /\ IF i > Len(wf_config.phases)
       THEN /\ workflow_status' = "completed"
            /\ wf_pc' = "report"
            /\ active_workflows' = active_workflows \cup {WorkflowId}
            /\ cancellation_tokens' = WithToken(cancellation_tokens, WorkflowId, cancelled)
            /\ phase_results' = stored
            /\ UNCHANGED <<started, tasks_left>>
       ELSE IF cancelled
         THEN /\ phase_results' = stored
              /\ UNCHANGED <<started, tasks_left>>
              /\ IF cancelled_is_exception
                   THEN /\ workflow_status' = "failed"
                        /\ wf_pc' = "report"
                        /\ active_workflows' = active_workflows \cup {WorkflowId}
                        /\ cancellation_tokens' = WithToken(cancellation_tokens, WorkflowId, cancelled)
                   ELSE /\ workflow_status' = "running"
                        /\ wf_pc' = "raised"
                        /\ active_workflows' = active_workflows \ {WorkflowId}
                        /\ cancellation_tokens' = WithoutToken(cancellation_tokens, WorkflowId)
         ELSE /\ phase_results' = [stored EXCEPT ![wf_config.phases[i]] = "running"]
              /\ started' = Append(started, wf_config.phases[i])
              /\ tasks_left' \in 0..PhaseResources(wf_config.phases[i], wf_config, found)
              /\ wf_pc' = "phase"
              /\ workflow_status' = "running"
              /\ active_workflows' = active_workflows \cup {WorkflowId}
              /\ cancellation_tokens' = WithToken(cancellation_tokens, WorkflowId, cancelled)

\* run_prepatch_workflow is called (lines 48-89): an invalid configuration
\* raises ValueError before anything is registered; otherwise the workflow is
\* registered with its flag False and the phases are run
run_prepatch_workflow ==
  /\ wf_pc = "call"
  /\ IF validate(wf_config) # {}
       THEN /\ wf_pc' = "config_error"
            /\ UNCHANGED <<workflow_status, active_workflows, cancellation_tokens,
                           phase_index, phase_results, started, tasks_left,
                           context_instances>>
       ELSE execute_workflow_phases(1, phase_results, FALSE, context_instances)
  /\ UNCHANGED <<inputVars, clientVars, cleanupVars, validationVars, batchVars, semaphore, pc, results, backupVars, opVars,
                 waitVars, wfInputVars, completed_phases, cancelled_at, scan_outcomes>>

\* the scanner phase has the answer of scan_landing_zone for its next enabled
\* landing zone (lines 271-299): the scan returned, found, or it raised, and
\* the error is added to the PhaseResult and the loop goes on
ScanAnswered(outcome) ==
  /\ wf_pc = "phase"
  /\ wf_config.phases[phase_index] = "scanner"
  /\ tasks_left > 0
  /\ tasks_left' = tasks_left - 1
  /\ scan_outcomes' = Append(scan_outcomes, outcome)
  /\ UNCHANGED <<inputVars, clientVars, cleanupVars, validationVars, batchVars, semaphore, pc, results, backupVars, opVars,
                 waitVars, wfInputVars, wf_pc, workflow_status, active_workflows,
                 cancellation_tokens, phase_index, phase_results, completed_phases,
                 started, cancelled_at, context_instances>>

scan_landing_zone_returns ==
  \E k \in 0..(MaxPhaseTasks - all_instances(scan_outcomes)) :
    ScanAnswered([raised |-> FALSE, found |-> k])

scan_landing_zone_raises == ScanAnswered([raised |-> TRUE, found |-> 0])

\* one piece of per-resource work of the phase in flight (a backup, a start,
\* a health check) reaches its end
phase_task_done ==
  /\ wf_pc = "phase"
  /\ wf_config.phases[phase_index] # "scanner"
  /\ tasks_left > 0
  /\ tasks_left' = tasks_left - 1
  /\ UNCHANGED <<inputVars, clientVars, cleanupVars, validationVars, batchVars, semaphore, pc, results, backupVars, opVars,
                 waitVars, wfInputVars, wf_pc, workflow_status, active_workflows,
                 cancellation_tokens, phase_index, phase_results, completed_phases,
                 started, cancelled_at, contextVars>>

\* the phase in flight ends with status st: its PhaseResult is stored (lines
\* 150-159), the phase is appended to completed_phases (line 249) and the loop
\* goes on with the next phase.  The scanner phase has stored what it found
\* (context.instances = all_instances, line 302) before anything after its
\* loop can raise.
PhaseEnds(st) ==
  /\ wf_pc = "phase"
  /\ tasks_left = 0
  /\ completed_phases' = Append(completed_phases, wf_config.phases[phase_index])
  /\ execute_workflow_phases(
       phase_index + 1,
       [phase_results EXCEPT ![wf_config.phases[phase_index]] = st],
       is_cancelled(cancellation_tokens),
       IF wf_config.phases[phase_index] = "scanner"
         THEN all_instances(scan_outcomes) ELSE context_instances)
  /\ UNCHANGED <<inputVars, clientVars, cleanupVars, validationVars, batchVars, semaphore, pc, results, backupVars, opVars,
                 waitVars, wfInputVars, cancelled_at, scan_outcomes>>

\* the phase body returned: phase_result.mark_completed() (line 150)
phase_completes == PhaseEnds("completed")

\* the phase body raised: run_workflow_phase catches the exception and marks the
\* PhaseResult failed (lines 152-155), then returns as after a success
phase_raises == PhaseEnds("failed")

\* a variant of the finally block that leaves the cancellation token behind
generate_workflow_report_done_keeps_token ==
  /\ wf_pc = "report"
  /\ wf_pc' = "returned"
  /\ active_workflows' = active_workflows \ {WorkflowId}
  /\ UNCHANGED <<inputVars, clientVars, cleanupVars, validationVars, batchVars, semaphore, pc, results, backupVars, opVars,
                 waitVars, wfInputVars, workflow_status, phase_index, phase_results,
                 completed_phases, started, tasks_left, cancelled_at, contextVars,
                 cancellation_tokens>>

\* _generate_workflow_report has ended (its exceptions are logged, lines
\* 584-585), then the finally block and the return (lines 107-113)
generate_workflow_report_done ==
  /\ wf_pc = "report"
  /\ wf_pc' = "returned"
  /\ active_workflows' = active_workflows \ {WorkflowId}
  /\ cancellation_tokens' = WithoutToken(cancellation_tokens, WorkflowId)
  /\ UNCHANGED <<inputVars, clientVars, cleanupVars, validationVars, batchVars, semaphore, pc, results, backupVars, opVars,
                 waitVars, wfInputVars, workflow_status, phase_index, phase_results,
                 completed_phases, started, tasks_left, cancelled_at, contextVars>>

\* a variant of cancel_workflow that also cancels the task running the phase
cancel_workflow_interrupting ==
  /\ WorkflowId \in DOMAIN cancellation_tokens
  /\ cancelled_at' = IF cancelled_at = NoTime THEN Len(started) ELSE cancelled_at
  /\ IF wf_pc = "phase"
       THEN /\ wf_pc' = "raised"
            /\ active_workflows' = active_workflows \ {WorkflowId}
            /\ cancellation_tokens' = WithoutToken(cancellation_tokens, WorkflowId)
       ELSE /\ cancellation_tokens' = [cancellation_tokens EXCEPT ![WorkflowId] = TRUE]
            /\ UNCHANGED <<wf_pc, active_workflows>>
  /\ UNCHANGED <<inputVars, clientVars, cleanupVars, validationVars, batchVars, semaphore, pc, results, backupVars, opVars,
                 waitVars, wfInputVars, workflow_status, phase_index, phase_results,
                 completed_phases, started, tasks_left, contextVars>>

\* cancel_workflow (lines 167-173) on a workflow that has a token; on any other
\* id it returns False and changes nothing
cancel_workflow ==
  /\ WorkflowId \in DOMAIN cancellation_tokens
  /\ cancellation_tokens' = [cancellation_tokens EXCEPT ![WorkflowId] = TRUE]
  /\ cancelled_at' = IF cancelled_at = NoTime THEN Len(started) ELSE cancelled_at
  /\ UNCHANGED <<inputVars, clientVars, cleanupVars, validationVars, batchVars, semaphore, pc, results, backupVars, opVars,
                 waitVars, wfInputVars, wf_pc, workflow_status, active_workflows,
                 phase_index, phase_results, completed_phases, started, tasks_left,
                 contextVars>>

\* ----------------------------------------------------- cleanup_old_backups
\* The CreationDate of an image as the client hands it over: a datetime, an
\* ISO-8601 string (what the EC2 API answers), or no CreationDate at all.
\* Days are counted from 0; Today is the day of datetime.utcnow().
Today == MaxDay + 1
NoDate == [kind |-> "none", day |-> 0]
CreationDates ==
  {NoDate} \cup [kind : {"datetime", "str"}, day : 0..MaxDay]

\* the type of the sort key x.get('CreationDate', '') (line 202)
KeyType(d) == IF d.kind = "datetime" THEN "datetime" ELSE "str"

\* its rank among keys of its type: '' sorts before every date string
KeyRank(d) == IF d.kind = "none" THEN 0 ELSE d.day + 1

\* list.sort raises TypeError when it has to compare a datetime with a str
sort_raises(images) ==
  \E i, j \in 1..Len(images) :
    KeyType(images[i].CreationDate) # KeyType(images[j].CreationDate)

\* list.sort(key=..., reverse=True) (line 202): descending and stable
RECURSIVE InsertNewestFirst(_, _)
InsertNewestFirst(x, sorted) ==
  IF sorted = <<>> THEN <<x>>
  ELSE IF KeyRank(Head(sorted).CreationDate) >= KeyRank(x.CreationDate)
    THEN <<Head(sorted)>> \o InsertNewestFirst(x, Tail(sorted))
    ELSE <<x>> \o sorted

RECURSIVE SortNewestFirst(_, _)
SortNewestFirst(images, n) ==
  IF n = 0 THEN <<>>
  ELSE InsertNewestFirst(images[n], SortNewestFirst(images, n - 1))

\* cutoff_date = datetime.utcnow() - timedelta(days=max_age_days) (line 205)
cutoff_date(days) == Today - days

\* should_delete for the entry at index i, counted from 1 (lines 211-222)
should_delete(i, b, limit, cutoff) ==
  \/ i - 1 >= limit
  \/ /\ b.CreationDate.kind = "datetime"
     /\ b.CreationDate.day < cutoff

\* the first index from i on whose entry is to be deleted, or Len + 1
RECURSIVE NextToDelete(_, _)
NextToDelete(bs, i) ==
  IF i > Len(bs) THEN i
  ELSE IF should_delete(i, bs[i], max_backups, cutoff_date(max_age_days)) THEN i
  ELSE NextToDelete(bs, i + 1)

\* the for loop of lines 207-231 from index i on, up to its next await: the
\* deregister_ami call for the next entry to delete, or the return of line 234
cleanup_loop(bs, i, deleted) ==
  LET j == NextToDelete(bs, i) IN
    /\ cleanup_i' = j
    /\ deleted_amis' = deleted
    /\ IF j > Len(bs)
         THEN /\ cleanup_pc' = "done"
              /\ cleanup_result' = deleted
              /\ UNCHANGED deregister_calls
         ELSE /\ cleanup_pc' = "deregister_ami"
              /\ deregister_calls' = Append(deregister_calls, bs[j].ImageId)
              /\ UNCHANGED cleanup_result

otherVars ==
  <<inputVars, clientVars, batchVars, semaphore, pc, results, backupVars, opVars, waitVars, wfVars,
    validationVars>>

\* cleanup_old_backups is called: configure_for_region is awaited (line 192)
cleanup_old_backups ==
  /\ cleanup_pc = "call"
  /\ cleanup_pc' = "configure_for_region"
  /\ UNCHANGED <<otherVars, cleanupInputVars, cleanup_backups, cleanup_i, deleted_amis,
                 deregister_calls, deregister_failed, cleanup_result>>

\* configure_for_region raised: the outer except returns [] (lines 236-238)
cleanup_configure_raises ==
  /\ cleanup_pc = "configure_for_region"
  /\ cleanup_pc' = "done"
  /\ cleanup_result' = <<>>
  /\ UNCHANGED <<otherVars, cleanupInputVars, cleanup_backups, cleanup_i, deleted_amis,
                 deregister_calls, deregister_failed>>

\* configure_for_region returned: _find_instance_backups awaits describe_images
find_instance_backups ==
  /\ cleanup_pc = "configure_for_region"
  /\ cleanup_pc' = "describe_images"
  /\ UNCHANGED <<otherVars, cleanupInputVars, cleanup_backups, cleanup_i, deleted_amis,
                 deregister_calls, deregister_failed, cleanup_result>>

\* describe_images answered, or raised and _find_instance_backups gave []
\* (lines 379-381).  No backups: return [] (197-199).  Otherwise the list is
\* sorted; a TypeError of the sort is caught by the outer except, which returns
\* []; else the loop is entered.
find_instance_backups_returns ==
  /\ cleanup_pc = "describe_images"
  /\ \E found \in {found_images, <<>>} :
       IF found = <<>> \/ sort_raises(found)
         THEN /\ cleanup_pc' = "done"
              /\ cleanup_result' = <<>>
              /\ cleanup_backups' = found
              /\ UNCHANGED <<cleanup_i, deleted_amis, deregister_calls>>
         ELSE /\ cleanup_backups' = SortNewestFirst(found, Len(found))
              /\ cleanup_loop(SortNewestFirst(found, Len(found)), 1, <<>>)
  /\ UNCHANGED <<otherVars, cleanupInputVars, deregister_failed>>

\* deregister_ami returned: the id is appended and the loop goes on (226-228)
deregister_ami_returns ==
  /\ cleanup_pc = "deregister_ami"
  /\ cleanup_loop(cleanup_backups, cleanup_i + 1,
                  Append(deleted_amis, cleanup_backups[cleanup_i].ImageId))
  /\ UNCHANGED <<otherVars, cleanupInputVars, cleanup_backups, deregister_failed>>

\* variant: a deregister_ami call that raises ends the pass
deregister_ami_raises_aborting ==
  /\ cleanup_pc = "deregister_ami"
  /\ deregister_failed' = deregister_failed \cup {cleanup_backups[cleanup_i].ImageId}
  /\ cleanup_pc' = "done"
  /\ cleanup_result' = deleted_amis
  /\ UNCHANGED <<otherVars, cleanupInputVars, cleanup_backups, cleanup_i, deleted_amis,
                 deregister_calls>>

\* deregister_ami raised: the warning is logged and the loop goes on (229-230)
deregister_ami_raises ==
  /\ cleanup_pc = "deregister_ami"
  /\ deregister_failed' = deregister_failed \cup {cleanup_backups[cleanup_i].ImageId}
  /\ cleanup_loop(cleanup_backups, cleanup_i + 1, deleted_amis)
  /\ UNCHANGED <<otherVars, cleanupInputVars, cleanup_backups>>

\* cleanup_old_backups is not in use, or has not been called yet
\* ------------------------------------------------- _run_validation_phase
ValidationIdle ==
  /\ validation_i = 0
  /\ health_checked = <<>>
  /\ validation_results = <<>>
  /\ validation_errors = <<>>
  /\ validation_status = "none"

ValidationUnused ==
  /\ validation_enabled = FALSE
  /\ fail_on_validation_error = FALSE
  /\ validation_pc = "unused"
  /\ ValidationIdle

\* everything but the variables of the validation phase
notValidationVars ==
  <<inputVars, clientVars, batchVars, semaphore, pc, results, backupVars, opVars, waitVars, wfVars,
    cleanupVars>>

\* the loop of _run_validation_phase at instance i with these results and errors
\* (lines 475-478): validate_instance_health is awaited for the next instance,
\* or the loop has ended and the metrics are built (lines 499-507)
validation_loop(i, res, errors) ==
  /\ validation_results' = res
  /\ validation_errors' = errors
  /\ IF i > context_instances
       THEN /\ validation_pc' = "metrics"
            /\ UNCHANGED <<validation_i, health_checked>>
       ELSE /\ validation_pc' = "check"
            /\ validation_i' = i
            /\ health_checked' = Append(health_checked, i)

\* run_workflow_phase(VALIDATION) (lines 129-145, 463-475): the PhaseResult is
\* created RUNNING; a disabled validation returns at once and the phase is
\* marked completed (line 150)
run_validation_phase ==
  /\ validation_pc = "call"
  /\ IF validation_enabled
       THEN /\ validation_status' = "running"
            /\ validation_loop(1, <<>>, <<>>)
       ELSE /\ validation_status' = "completed"
            /\ validation_pc' = "ended"
            /\ UNCHANGED <<validation_i, health_checked, validation_results,
                           validation_errors>>
  /\ UNCHANGED <<notValidationVars, validationInputVars>>

\* what one pass of the loop body adds to validation_results after
\* validate_instance_health gave overall_healthy = healthy (lines 477-497):
\* the health check; for an unhealthy instance with fail_on_validation_error
\* the Exception raised at line 488 is caught by the handler of the same pass
\* (line 490), which appends a second, unhealthy entry
PassResults(i, healthy, fail) ==
  <<[instance |-> i, overall_healthy |-> healthy]>>
  \o (IF ~healthy /\ fail THEN <<[instance |-> i, overall_healthy |-> FALSE]>>
      ELSE <<>>)

\* what the pass adds to phase_result.errors (lines 483-485, 491-492)
PassErrors(healthy, fail) ==
  (IF healthy THEN <<>> ELSE <<"Health validation failed">>)
  \o (IF ~healthy /\ fail THEN <<"Validation error">> ELSE <<>>)

\* validate_instance_health returned for the instance the loop is at; it
\* catches its own exceptions (server_manager_service.py:224-272)
validate_instance_health_returns ==
  /\ validation_pc = "check"
  /\ \E healthy \in BOOLEAN :
       validation_loop(
         validation_i + 1,
         validation_results \o PassResults(validation_i, healthy, fail_on_validation_error),
         validation_errors \o PassErrors(healthy, fail_on_validation_error))
  /\ UNCHANGED <<notValidationVars, validationInputVars, validation_status>>

\* the metrics were built and stored and the body returned: mark_completed()
\* (lines 503-512, 150)
validation_phase_completes ==
  /\ validation_pc = "metrics"
  /\ validation_pc' = "ended"
  /\ validation_status' = "completed"
  /\ UNCHANGED <<notValidationVars, validationInputVars, validation_i, health_checked,
                 validation_results, validation_errors>>

\* building the metrics raised: the handler of line 514 re-raises and
\* run_workflow_phase marks the PhaseResult failed (lines 152-155)
validation_phase_raises ==
  /\ validation_pc = "metrics"
  /\ validation_pc' = "ended"
  /\ validation_status' = "failed"
  /\ UNCHANGED <<notValidationVars, validationInputVars, validation_i, health_checked,
                 validation_results, validation_errors>>

CleanupIdle ==
  /\ cleanup_backups = <<>>
  /\ cleanup_i = 0
  /\ deleted_amis = <<>>
  /\ deregister_calls = <<>>
  /\ deregister_failed = {}
  /\ cleanup_result = <<>>

CleanupUnused ==
  /\ found_images = <<>>
  /\ max_backups = 0
  /\ max_age_days = 0
  /\ cleanup_pc = "unused"
  /\ CleanupIdle
  /\ ValidationUnused

\* another run_prepatch_workflow call registers its workflow (lines 83-85)
other_workflow_starts ==
  /\ wf_pc # "unused"
  /\ OtherWorkflowId \notin active_workflows
  /\ active_workflows' = active_workflows \cup {OtherWorkflowId}
  /\ cancellation_tokens' = WithToken(cancellation_tokens, OtherWorkflowId, FALSE)
  /\ UNCHANGED <<otherWfVars, wf_pc, workflow_status, phase_index, phase_results,
                 completed_phases, started, tasks_left, cancelled_at, contextVars>>

\* the other call ends: its finally block (lines 107-111)
other_workflow_ends ==
  /\ OtherWorkflowId \in active_workflows
  /\ active_workflows' = active_workflows \ {OtherWorkflowId}
  /\ cancellation_tokens' = WithoutToken(cancellation_tokens, OtherWorkflowId)
  /\ UNCHANGED <<otherWfVars, wf_pc, workflow_status, phase_index, phase_results,
                 completed_phases, started, tasks_left, cancelled_at, contextVars>>

\* variant: cancelling one workflow sets the flag of every registered workflow
cancel_other_workflow_all ==
  /\ OtherWorkflowId \in DOMAIN cancellation_tokens
  /\ cancellation_tokens' = [k \in DOMAIN cancellation_tokens |-> TRUE]
  /\ UNCHANGED <<otherWfVars, wf_pc, workflow_status, active_workflows, phase_index,
                 phase_results, completed_phases, started, tasks_left, cancelled_at, contextVars>>

\* cancel_workflow (lines 167-173) with the id of the other workflow
cancel_other_workflow ==
  /\ OtherWorkflowId \in DOMAIN cancellation_tokens
  /\ cancellation_tokens' = [cancellation_tokens EXCEPT ![OtherWorkflowId] = TRUE]
  /\ UNCHANGED <<otherWfVars, wf_pc, workflow_status, active_workflows, phase_index,
                 phase_results, completed_phases, started, tasks_left, cancelled_at, contextVars>>

\* --------------------------------------------------------- specifications
\* The batches read one attribute of an instance each: requires_backup
\* (create_multiple_backups) or status (start / stop_multiple_instances).
\* instance.region of the instances of the model
Regions == {"r1", "r2"}

\* the client has not been configured for a region yet
NoRegion == "none"

\* every instance lies in the same region: where configure_for_region stores
\* the region cannot be seen
OneRegion ==
  /\ regions = [t \in Tasks |-> "r1"]
  /\ configure_writes_on_call = FALSE

InstanceInputs(m) ==
  IF m = "backup"
    THEN [requires_backup : BOOLEAN, status : {"running"}]
    ELSE [requires_backup : {FALSE}, status : StatusInputs]

InitIdle ==
  /\ batch_pc = "idle"
  /\ client_region = NoRegion
  /\ call_region = [t \in Tasks |-> NoRegion]
  /\ eligible = <<>>
  /\ semaphore = 0
  /\ results = [t \in Tasks |-> NoResult]
  /\ batch_out = <<>>
  /\ active_backups = {}
  /\ op = [t \in Tasks |-> None]
  /\ issued = [t \in Tasks |-> 0]
  /\ active_operations = {}
  /\ operation_history = <<>>
  /\ current_state = [t \in Tasks |-> None]
  /\ aws_state = [t \in Tasks |-> None]
  /\ timeout_time = [t \in Tasks |-> NoTime]
  /\ workflow_status = "pending"
  /\ active_workflows = {}
  /\ cancellation_tokens = NoTokens
  /\ phase_index = 0
  /\ phase_results = [p \in Phases |-> "none"]
  /\ completed_phases = <<>>
  /\ started = <<>>
  /\ tasks_left = 0
  /\ cancelled_at = NoTime
  /\ scan_outcomes = <<>>

\* one of the three batches, called once on a list of NumInstances instances
InitFanOut ==
  /\ mode \in BatchModes
  /\ instances \in [Tasks -> InstanceInputs(mode)]
  /\ max_concurrent \in 0..MaxConcurrent
  /\ wait_for_ready \in (IF mode = "start" THEN BOOLEAN ELSE {TRUE})
  /\ target_state = "running"
  /\ timeout_minutes = StateTimeoutMinutes
  /\ image_answers = {}
  /\ pc = [t \in Tasks |-> "unused"]
  /\ backup = [t \in Tasks |-> None]
  /\ now = 0
  /\ wf_config = NoWorkflowConfig
  /\ cancelled_is_exception = FALSE
  /\ wf_pc = "unused"
  /\ CleanupUnused
  /\ InitIdle
  /\ OneRegion
  /\ context_instances = 0

NextFanOut ==
  \/ create_multiple_backups
  \/ create_multiple_backups_return
  \/ start_multiple_instances
  \/ stop_multiple_instances
  \/ multiple_instances_return
  \/ \E t \in Tasks :
       \/ create_backup_begin(t)
       \/ create_backup_configure_raises(t)
       \/ execute_backup_begin(t)
       \/ execute_backup_returns(t)
       \/ execute_backup_raises(t)
       \/ start_instance(t)
       \/ stop_instance(t)
       \/ execute_operation_call(t)
       \/ execute_operation_raises(t)
       \/ operation_task_raises(t)
       \/ execute_stop_operation(t)
       \/ execute_start_operation(t)
       \/ wait_for_state_poll(t)
       \/ wait_for_state_sleep_done(t)
       \/ ready_sleep_done(t)

SpecFanOut == InitFanOut /\ [][NextFanOut]_vars

\* an instance every batch of mode m keeps
EligibleInstance(m) ==
  [requires_backup |-> (m = "backup"),
   status |-> IF m = "start" THEN "stopped" ELSE "running"]

\* one of the three batches on NumInstances instances it keeps, which lie in
\* any regions; a start batch does not wait for readiness
InitRegions ==
  /\ mode \in BatchModes
  /\ instances = [t \in Tasks |-> EligibleInstance(mode)]
  /\ max_concurrent \in 1..MaxConcurrent
  /\ wait_for_ready = FALSE
  /\ target_state = "running"
  /\ timeout_minutes = StateTimeoutMinutes
  /\ image_answers = {}
  /\ pc = [t \in Tasks |-> "unused"]
  /\ backup = [t \in Tasks |-> None]
  /\ now = 0
  /\ wf_config = NoWorkflowConfig
  /\ cancelled_is_exception = FALSE
  /\ wf_pc = "unused"
  /\ CleanupUnused
  /\ InitIdle
  /\ regions \in [Tasks -> Regions]
  /\ configure_writes_on_call \in BOOLEAN
  /\ context_instances = 0

NextRegions ==
  \/ create_multiple_backups
  \/ create_multiple_backups_return
  \/ start_multiple_instances
  \/ stop_multiple_instances
  \/ multiple_instances_return
  \/ \E t \in Tasks :
       \/ create_backup_begin(t)
       \/ create_backup_configure_raises(t)
       \/ execute_backup_begin(t)
       \/ execute_backup_returns(t)
       \/ execute_backup_raises(t)
       \/ start_instance(t)
       \/ stop_instance(t)
       \/ execute_operation_call(t)
       \/ execute_operation_raises(t)
       \/ operation_task_raises(t)
       \/ execute_stop_operation(t)
       \/ execute_start_operation(t)

SpecRegions == InitRegions /\ [][NextRegions]_vars

\* one call made directly on the server manager, with cancel_operation calls
\* arriving at any time
InitOps ==
  /\ mode \in SingleModes \cup {"wait_for_state"}
  /\ \E s \in InstanceStatus :
       instances = [t \in Tasks |-> [requires_backup |-> FALSE, status |-> s]]
  /\ max_concurrent = 0
  /\ wait_for_ready \in (IF mode \in {"start_instance", "restart_instance"}
                           THEN BOOLEAN ELSE {TRUE})
  /\ target_state \in (IF mode = "wait_for_state" THEN InstanceStatus ELSE {"running"})
  /\ timeout_minutes \in (IF mode = "wait_for_state"
                            THEN 0..MaxTimeoutMinutes ELSE {StateTimeoutMinutes})
  /\ image_answers = {}
  /\ pc = [t \in Tasks |-> IF t = 1 THEN "call" ELSE "unused"]
  /\ backup = [t \in Tasks |-> None]
  /\ now = 0
  /\ wf_config = NoWorkflowConfig
  /\ cancelled_is_exception = FALSE
  /\ wf_pc = "unused"
  /\ CleanupUnused
  /\ InitIdle
  /\ OneRegion
  /\ context_instances = 0

NextOps ==
  \E t \in Tasks :
    \/ start_instance(t)
    \/ stop_instance(t)
    \/ restart_instance(t)
    \/ execute_operation_call(t)
    \/ execute_operation_raises(t)
    \/ execute_stop_operation(t)
    \/ execute_start_operation(t)
    \/ execute_restart_operation(t)
    \/ restart_sleep_done(t)
    \/ wait_for_state(t)
    \/ wait_for_state_poll(t)
    \/ wait_for_state_sleep_done(t)
    \/ ready_sleep_done(t)
    \/ cancel_operation(t)

SpecOps == InitOps /\ [][NextOps]_vars

\* the Backup handed to wait_for_completion: any status, with or without an
\* ami_id, started or not
BackupInputs ==
  {[NewBackup(1) EXCEPT !.status = s, !.ami_id = a, !.start_time = st] :
     s \in BackupStatus, a \in {None, "ami"}, st \in {NoTime, 0}}

\* the clock when the wait is called
StartClocks == {k * BackupCheckInterval : k \in 0..MaxStartClock}

InitWaitWith(backups, answers) ==
  /\ mode = "wait_for_completion"
  /\ instances = [t \in Tasks |-> [requires_backup |-> TRUE, status |-> "running"]]
  /\ max_concurrent = 0
  /\ wait_for_ready = TRUE
  /\ target_state = "running"
  /\ timeout_minutes \in 0..MaxTimeoutMinutes
  /\ image_answers = answers
  /\ pc = [t \in Tasks |-> IF t = 1 THEN "call" ELSE "unused"]
  /\ \E b \in backups : backup = [t \in Tasks |-> IF t = 1 THEN b ELSE None]
  /\ now \in StartClocks
  /\ wf_config = NoWorkflowConfig
  /\ cancelled_is_exception = FALSE
  /\ wf_pc = "unused"
  /\ CleanupUnused
  /\ InitIdle
  /\ OneRegion
  /\ context_instances = 0

NextWait ==
  \E t \in Tasks :
    \/ wait_for_completion(t)
    \/ wait_for_completion_status(t)
    \/ wait_for_completion_progress(t)
    \/ wait_for_completion_sleep_done(t)

\* one wait_for_completion call, the environment answering as it likes
InitWait == InitWaitWith(BackupInputs, ImageAnswers)

SpecWait == InitWait /\ [][NextWait]_vars

\* the same call on a started Backup in Creating whose image stays "pending";
\* the event loop keeps running the task
CreatingBackups ==
  {b \in BackupInputs : b.status = "creating" /\ b.ami_id # None}

InitWaitPending == InitWaitWith(CreatingBackups, {"pending"})

SpecWaitPending == InitWaitPending /\ [][NextWait]_vars /\ WF_vars(NextWait)


\* every list of distinct phases a configuration can name
PhaseLists ==
  {l \in UNION {[1..n -> Phases] : n \in 0..Cardinality(Phases)} :
     \A i, j \in DOMAIN l : i # j => l[i] # l[j]}

\* the parts of WorkflowConfig the orchestrator and validate() read, and the
\* start timeout of the server manager, which validate() does not read
WorkflowConfigs ==
  [phases : PhaseLists, landing_zones : {0, 1}, ami_backup_timeout_minutes : {0, 1},
   start_timeout_minutes : {0, 1}, max_concurrent_scans : {1},
   continue_on_error : BOOLEAN]

\* one run_prepatch_workflow call, with cancel_workflow calls arriving at any time
InitWorkflow ==
  /\ mode = "workflow"
  /\ instances = [t \in Tasks |-> [requires_backup |-> FALSE, status |-> "running"]]
  /\ max_concurrent = 0
  /\ wait_for_ready = TRUE
  /\ target_state = "running"
  /\ timeout_minutes = StateTimeoutMinutes
  /\ image_answers = {}
  /\ pc = [t \in Tasks |-> "unused"]
  /\ backup = [t \in Tasks |-> None]
  /\ now = 0
  /\ wf_config \in WorkflowConfigs
  /\ cancelled_is_exception \in BOOLEAN
  /\ wf_pc = "call"
  /\ CleanupUnused
  /\ InitIdle
  /\ OneRegion
  /\ context_instances = 0

NextWorkflow ==
  \/ run_prepatch_workflow
  \/ scan_landing_zone_returns
  \/ scan_landing_zone_raises
  \/ phase_task_done
  \/ phase_completes
  \/ phase_raises
  \/ generate_workflow_report_done
  \/ cancel_workflow
  \/ other_workflow_starts
  \/ other_workflow_ends
  \/ cancel_other_workflow

SpecWorkflow == InitWorkflow /\ [][NextWorkflow]_vars

\* valid configurations with one or more landing zones
ScanConfigs ==
  [phases : PhaseLists, landing_zones : 1..MaxLandingZones,
   ami_backup_timeout_minutes : {1}, start_timeout_minutes : {1},
   max_concurrent_scans : {1}, continue_on_error : BOOLEAN]

\* one run_prepatch_workflow call that nobody cancels, on a valid configuration
InitScan ==
  /\ mode = "workflow"
  /\ instances = [t \in Tasks |-> [requires_backup |-> FALSE, status |-> "running"]]
  /\ max_concurrent = 0
  /\ wait_for_ready = TRUE
  /\ target_state = "running"
  /\ timeout_minutes = StateTimeoutMinutes
  /\ image_answers = {}
  /\ pc = [t \in Tasks |-> "unused"]
  /\ backup = [t \in Tasks |-> None]
  /\ now = 0
  /\ wf_config \in ScanConfigs
  /\ cancelled_is_exception \in BOOLEAN
  /\ wf_pc = "call"
  /\ CleanupUnused
  /\ InitIdle
  /\ OneRegion
  /\ context_instances = 0

NextScan ==
  \/ run_prepatch_workflow
  \/ scan_landing_zone_returns
  \/ scan_landing_zone_raises
  \/ phase_task_done
  \/ phase_completes
  \/ phase_raises
  \/ generate_workflow_report_done

SpecScan == InitScan /\ [][NextScan]_vars

\* the lists describe_images can answer with: image ids 1..n in the order of
\* the answer, each with any CreationDate
ImageLists ==
  UNION {{[k \in 1..n |-> [ImageId |-> k, CreationDate |-> dates[k]]] :
            dates \in [1..n -> CreationDates]} : n \in 0..MaxImages}

\* one cleanup_old_backups call
InitCleanup ==
  /\ mode = "cleanup"
  /\ instances = [t \in Tasks |-> [requires_backup |-> FALSE, status |-> "running"]]
  /\ max_concurrent = 0
  /\ wait_for_ready = TRUE
  /\ target_state = "running"
  /\ timeout_minutes = StateTimeoutMinutes
  /\ image_answers = {}
  /\ pc = [t \in Tasks |-> "unused"]
  /\ backup = [t \in Tasks |-> None]
  /\ now = 0
  /\ wf_config = NoWorkflowConfig
  /\ cancelled_is_exception = FALSE
  /\ wf_pc = "unused"
  /\ InitIdle
  /\ OneRegion
  /\ context_instances = 0
  /\ found_images \in ImageLists
  /\ max_backups \in 0..MaxImages
  /\ max_age_days \in 0..MaxDay
  /\ cleanup_pc = "call"
  /\ CleanupIdle
  /\ ValidationUnused

\* one run_workflow_phase(VALIDATION) call on a context of up to NumInstances
\* instances
InitValidate ==
  /\ mode = "validate"
  /\ instances = [t \in Tasks |-> [requires_backup |-> FALSE, status |-> "running"]]
  /\ max_concurrent = 0
  /\ wait_for_ready = TRUE
  /\ target_state = "running"
  /\ timeout_minutes = StateTimeoutMinutes
  /\ image_answers = {}
  /\ pc = [t \in Tasks |-> "unused"]
  /\ backup = [t \in Tasks |-> None]
  /\ now = 0
  /\ wf_config = NoWorkflowConfig
  /\ cancelled_is_exception = FALSE
  /\ wf_pc = "unused"
  /\ InitIdle
  /\ OneRegion
  /\ context_instances \in 0..NumInstances
  /\ found_images = <<>>
  /\ max_backups = 0
  /\ max_age_days = 0
  /\ cleanup_pc = "unused"
  /\ CleanupIdle
  /\ validation_enabled \in BOOLEAN
  /\ fail_on_validation_error \in BOOLEAN
  /\ validation_pc = "call"
  /\ ValidationIdle

NextValidate ==
  \/ run_validation_phase
  \/ validate_instance_health_returns
  \/ validation_phase_completes
  \/ validation_phase_raises

SpecValidate == InitValidate /\ [][NextValidate]_vars

NextCleanup ==
  \/ cleanup_old_backups
  \/ cleanup_configure_raises
  \/ find_instance_backups
  \/ find_instance_backups_returns
  \/ deregister_ami_returns
  \/ deregister_ami_raises

SpecCleanup == InitCleanup /\ [][NextCleanup]_vars

\* ------------------------------------------------------------ properties
\* sub occurs in the text msg (None when no reason was recorded)
Contains(msg, sub) ==
  /\ msg # None
  /\ \E i \in 1..(Len(msg) - Len(sub) + 1) : SubSeq(msg, i, i + Len(sub) - 1) = sub

NonEmpty(msg) == msg # None /\ Len(msg) > 0

\* the input instances with requires_backup true
RequiringBackup == {i \in Tasks : instances[i].requires_backup}

\* C1: create_multiple_backups returns exactly one Backup for each input
\* instance with requires_backup true and none for an instance without it (the
\* empty list when no instance requires backup), whatever the create calls do.
C1_OneBackupPerRequiringInstance ==
  (mode = "backup" /\ batch_pc = "returned") =>
    /\ Len(batch_out) = Cardinality(RequiringBackup)
    /\ \A k \in 1..Len(batch_out) : batch_out[k].instance_id \in RequiringBackup
    /\ \A i \in RequiringBackup :
         \E k \in 1..Len(batch_out) : batch_out[k].instance_id = i

\* a batch over a mixed list has returned, one create call failed, one succeeded
C1_Witness ==
  /\ mode = "backup"
  /\ batch_pc = "returned"
  /\ Len(batch_out) = NumInstances - 1
  /\ \E k \in 1..Len(batch_out) : batch_out[k].status = "failed"
  /\ \E k \in 1..Len(batch_out) : batch_out[k].status = "creating"

\* C2: in every state of a fan-out batch run with max_concurrent = N, at most
\* N tasks are inside a call of the external client.
C2_InFlightAtMostMaxConcurrent ==
  mode \in BatchModes => Cardinality(InFlight) <= max_concurrent

\* the semaphore is exhausted: N tasks are in flight and another one waits
C2_Witness ==
  /\ mode \in BatchModes
  /\ max_concurrent = MaxConcurrent
  /\ Cardinality(InFlight) = max_concurrent
  /\ \E t \in Tasks : pc[t] = "queued"

\* C3: wait_for_completion returns True exactly when the status recorded on
\* the Backup at the return is Available, and when it returns False the
\* recorded status is a terminal one other than Available.
C3_ReturnValueIsRecordedStatus ==
  (mode = "wait_for_completion" /\ pc[1] = "done") =>
    /\ results[1].value <=> (backup[1].status = "available")
    /\ ~results[1].value => backup[1].status \in {"failed", "error", "cancelled"}

\* C4: a Backup whose status is Available or Failed keeps that status through
\* every later step of wait_for_completion, get_backup_status and
\* _update_backup_progress.
C4_TerminalBackupStatusIsFinal ==
  [][(mode = "wait_for_completion" /\ backup[1].status \in {"available", "failed"})
       => backup'[1].status = backup[1].status]_vars

C7_PendingForeverTimesOut ==
  /\ <>(pc[1] = "done")
  /\ [](pc[1] = "done" =>
          /\ now >= timeout_time[1]
          /\ results[1] = BoolResult(FALSE)
          /\ backup[1].status = "failed"
          /\ Contains(backup[1].error_message, <<"timed", "out">>))

\* the wait has polled, slept past a deadline of one minute or more and returned
C7_Witness ==
  /\ mode = "wait_for_completion"
  /\ image_answers = {"pending"}
  /\ pc[1] = "done"
  /\ timeout_minutes > 0
  /\ aws_state[1] = "pending"
  /\ backup[1].status = "failed"
  /\ ~results[1].value

\* the statuses on which the loop of wait_for_completion returns
WaitEndingStatuses == {"available", "failed", "error", "cancelled"}

\* this step is the status query of a poll coming back with an exception
StatusQueryRaised ==
  /\ mode = "wait_for_completion"
  /\ pc[1] = "describe_image"
  /\ pc'[1] # "describe_image"
  /\ aws_state'[1] = "raise"

\* this step ends the wait
WaitEnds == mode = "wait_for_completion" /\ pc[1] # "done" /\ pc'[1] = "done"

\* this step finds the deadline passed at the loop head
DeadlineReached == pc[1] \in {"call", "sleep"} /\ now' >= timeout_time'[1]

InvalidStates(target) == ErrorStates \ {target}

\* this step is a poll of wait_for_state that reads an invalid state
ObservesInvalidState ==
  /\ mode \in SingleModes \cup {"wait_for_state"}
  /\ pc[1] = "describe_instance"
  /\ pc'[1] # "describe_instance"
  /\ current_state'[1] \in InvalidStates(TargetOf(1))

\* C9: when a poll of wait_for_state reads an invalid state (Terminated or
\* Unknown, unless it is the target), the wait returns failure in that same
\* step, with the clock strictly before the deadline, and the task makes no
\* further poll.
C9_InvalidStateFailsFast ==
  /\ [][ObservesInvalidState =>
          /\ pc'[1] = "done"
          /\ now' < timeout_time[1]
          /\ IF mode = "wait_for_state"
               THEN results'[1] = BoolResult(FALSE)
               ELSE results'[1].result.status = "failed"]_vars
  /\ [][pc[1] = "done" => pc'[1] = "done"]_vars

\* a wait for Running has slept, then read Terminated and returned False with
\* time left
C9_Witness ==
  /\ mode = "wait_for_state"
  /\ target_state = "running"
  /\ pc[1] = "done"
  /\ current_state[1] = "terminated"
  /\ results[1] = BoolResult(FALSE)
  /\ now > 0
  /\ now < timeout_time[1]

\* the single call is made on an instance the batch filter would leave out
Ineligible ==
  \/ mode = "start_instance" /\ ~startable(instances[1])
  \/ mode = "stop_instance" /\ ~stoppable(instances[1])

\* C10: start_instance on an instance that is not Stopped/Stopping, and
\* stop_instance on one that is not Running/Pending, issue no call to the
\* client and return a Completed result or a Failed result whose reason says
\* "incorrect state".
C10_IneligibleIssuesNoCall ==
  Ineligible =>
    /\ issued[1] = 0
    /\ pc[1] = "done" =>
         \/ results[1].result.status = "completed"
         \/ /\ results[1].result.status = "failed"
            /\ Contains(results[1].result.error_message, <<"incorrect", "state">>)

\* RunWorkflow has ended: run_prepatch_workflow returned its WorkflowResult
WorkflowReturned == wf_pc = "returned"

\* the phases whose body was entered
ExecutedPhases == {started[i] : i \in 1..Len(started)}

\* C11: when a phase fails with a systemic error and continue_on_error is
\* false, no later phase of the workflow is started and the workflow's final
\* status is Failed.
C11_FatalPhaseFailureAborts ==
  ~wf_config.continue_on_error =>
    \A i \in 1..Len(started) :
      phase_results[started[i]] = "failed" =>
        /\ i = Len(started)
        /\ WorkflowReturned => workflow_status = "failed"

\* C12: when continue_on_error is true and the Backup phase fails with a
\* systemic error, the Backup phase is recorded as Failed, the StateChange and
\* Validate phases are still executed, and the final workflow status is
\* PartialSuccess.
C12_BackupFailureGivesPartialSuccess ==
  ( /\ wf_config.continue_on_error
    /\ wf_config.phases = PhaseOrder
    /\ cancelled_at = NoTime
    /\ phase_results["ami_backup"] = "failed"
    /\ WorkflowReturned )
  => /\ {"server_manager", "validation"} \subseteq ExecutedPhases
     /\ workflow_status = "partial_success"

\* C13: when RunWorkflow ends, the workflow status is Completed if and only if
\* every executed phase has a PhaseResult with status Completed; a run in which
\* some phase failed but that ran to the end is PartialSuccess.
C13_CompletedIffEveryPhaseCompleted ==
  WorkflowReturned =>
    /\ workflow_status = "completed"
         <=> \A p \in ExecutedPhases : phase_results[p] = "completed"
    /\ ( /\ Len(completed_phases) = Len(wf_config.phases)
         /\ \E p \in ExecutedPhases : phase_results[p] = "failed" )
       => workflow_status = "partial_success"

\* the configuration has an empty scope list or a timeout that is not positive
InvalidConfiguration ==
  \/ wf_config.landing_zones = 0
  \/ wf_config.ami_backup_timeout_minutes <= 0
  \/ wf_config.start_timeout_minutes <= 0

\* C14: when the configuration is invalid (empty scope list or a non-positive
\* timeout), RunWorkflow fails with a configuration error before any phase
\* starts, and no workflow is registered as active.
C14_InvalidConfigurationRunsNothing ==
  (InvalidConfiguration /\ wf_pc # "call") =>
    /\ wf_pc = "config_error"
    /\ started = <<>>
    /\ WorkflowId \notin active_workflows

\* C15: after cancel_workflow has returned True for a running workflow, no
\* phase of that workflow is started any more: the phases started are those
\* that had started when it returned.
C15_NoPhaseStartsAfterCancel ==
  cancelled_at # NoTime => Len(started) = cancelled_at

\* cancel_workflow returned True while the first phase was in flight, phases
\* were still to come, and the run has ended without starting them
C15_Witness ==
  /\ cancelled_at = 1
  /\ Len(wf_config.phases) > 1
  /\ wf_pc \in {"returned", "raised"}
  /\ Len(started) = 1

\* the phase whose body is in flight
PhaseInFlight == wf_config.phases[phase_index]

PhasePosition(p) == CHOOSE k \in 1..Len(PhaseOrder) : PhaseOrder[k] = p

\* C17: in every workflow run the executed phases start in the fixed order
\* Discover, Backup, StateChange, Validate whatever the order of the phase
\* list in the configuration; a phase starts only after the phases started
\* before it have ended, and a phase the configuration does not enable is never
\* executed.
C17_PhasesStartInFixedOrder ==
  /\ \A i, j \in 1..Len(started) :
       i < j => PhasePosition(started[i]) < PhasePosition(started[j])
  /\ \A i \in 1..Len(started) :
       i < Len(started) => phase_results[started[i]] \in {"completed", "failed"}
  /\ \A p \in ExecutedPhases : \E k \in 1..Len(wf_config.phases) : wf_config.phases[k] = p

\* the statuses a batch of the server manager accepts
EligibleStatuses ==
  IF mode = "start" THEN {"stopped", "stopping"} ELSE {"running", "pending"}

\* C18: start_multiple_instances (stop_multiple_instances) issues a client call
\* only for input instances that are Stopped/Stopping (Running/Pending),
\* returns exactly one OperationResult per such instance, and when the
\* operation of one instance raises the batch still returns: that instance gets
\* a Failed OperationResult carrying the error text and the results of the
\* other instances are the ones their operations returned.
C18_BatchOperatesOnEligibleOnly ==
  mode \in {"start", "stop"} =>
    /\ \A t \in Tasks :
         issued[t] > 0 =>
           /\ t \in 1..Len(eligible)
           /\ instances[eligible[t]].status \in EligibleStatuses
    /\ batch_pc # "idle" =>
         /\ {eligible[k] : k \in 1..Len(eligible)} =
              {i \in Tasks : instances[i].status \in EligibleStatuses}
         /\ Len(eligible) = Cardinality({i \in Tasks : instances[i].status \in EligibleStatuses})
    /\ GatherDone => ENABLED multiple_instances_return
    /\ batch_pc = "returned" =>
         /\ Len(batch_out) = Len(eligible)
         /\ \A i \in 1..Len(eligible) :
              IF results[i].kind = "exception"
                THEN /\ batch_out[i].status = "failed"
                     /\ NonEmpty(batch_out[i].error_message)
                     /\ batch_out[i].error_message = results[i].text
                ELSE batch_out[i] = results[i].result

\* a start batch has returned: one input instance was left out, the operation
\* of one eligible instance raised and that of another completed after its
\* client call
C18_Witness ==
  /\ mode = "start"
  /\ batch_pc = "returned"
  /\ Len(eligible) = NumInstances - 1
  /\ results[1].kind = "exception"
  /\ batch_out[1].status = "failed"
  /\ batch_out[2].status = "completed"
  /\ issued[2] = 1
  /\ issued[1] = 0

\* C19: the active-operations registry holds an operation exactly from the
\* moment it starts until it reaches a terminal state: every registered
\* operation is non-terminal, and no operation that has reached a terminal
\* state is registered.
C19_RegistryHoldsNonTerminalOperations ==
  mode \in SingleModes =>
    \A t \in active_operations : op[t].status \notin OperationTerminal

\* the tasks that have issued a create_image call
CreateCalls == {t \in Tasks : issued[t] > 0}

\* C20: every Backup returned by a create_backup call that did not raise is in
\* state Creating with its ami_id set, and create_backup returns after its
\* single create_image call, at the "ami_created" stage, without polling for
\* completion; a batch over instances of which some have requires_backup false
\* issues create_image calls for the others only, one each, and when no call
\* raised exactly one per requiring instance, all the Backups being Creating
\* when the batch returns.
C20_CreateBackupReturnsCreating ==
  mode = "backup" =>
    /\ \A t \in Tasks :
         /\ issued[t] <= 1
         /\ issued[t] > 0 => t \in 1..Len(eligible) /\ instances[eligible[t]].requires_backup
         /\ results[t].kind = "backup" =>
              /\ results[t].backup.status = "creating"
              /\ results[t].backup.ami_id # None
              /\ results[t].backup.current_step = "ami_created"
              /\ issued[t] = 1
    /\ ( /\ batch_pc = "returned"
         /\ \A t \in 1..Len(eligible) : results[t].kind = "backup" )
       => /\ Cardinality(CreateCalls) = Cardinality(RequiringBackup)
          /\ Len(batch_out) = Cardinality(RequiringBackup)
          /\ \A k \in 1..Len(batch_out) :
               batch_out[k].status = "creating" /\ batch_out[k].ami_id # None

\* a batch over instances of which one has requires_backup false has returned:
\* one create_image call was issued for each of the others and all their
\* Backups are Creating
C20_Witness ==
  /\ mode = "backup"
  /\ batch_pc = "returned"
  /\ Cardinality(RequiringBackup) = NumInstances - 1
  /\ Cardinality(CreateCalls) = NumInstances - 1
  /\ Len(batch_out) = NumInstances - 1
  /\ \A k \in 1..Len(batch_out) : batch_out[k].status = "creating"

\* the ids in a list of ids
IdsOf(ids) == {ids[k] : k \in 1..Len(ids)}

\* the age in days of an image that has a creation date, datetime or string
AgeDays(b) == Today - b.CreationDate.day

\* the list is in newest-first order, images without a date last
NewestFirst(bs) ==
  \A i, j \in 1..Len(bs) :
    i < j => KeyRank(bs[i].CreationDate) >= KeyRank(bs[j].CreationDate)

\* the entries the retention rule selects: position >= max_backups, or older
\* than max_age_days
SelectedForDeletion ==
  {cleanup_backups[i].ImageId :
     i \in {k \in 1..Len(cleanup_backups) :
              \/ k - 1 >= max_backups
              \/ /\ cleanup_backups[k].CreationDate.kind # "none"
                 /\ AgeDays(cleanup_backups[k]) > max_age_days}}

\* C21: cleanup_old_backups, with the instance's backups sorted newest first,
\* attempts to delete exactly the entries whose position is >= max_backups or
\* whose age exceeds max_age_days, and when every deletion succeeds the
\* returned list is exactly that set.
C21_CleanupDeletesExactlyTheSelected ==
  (cleanup_pc = "done" /\ NewestFirst(cleanup_backups)) =>
    /\ IdsOf(deregister_calls) = SelectedForDeletion
    /\ deregister_failed = {} => IdsOf(cleanup_result) = SelectedForDeletion

\* the entries the loop of cleanup_old_backups marks should_delete
MarkedForDeletion ==
  {cleanup_backups[i].ImageId :
     i \in {k \in 1..Len(cleanup_backups) :
              should_delete(k, cleanup_backups[k], max_backups,
                            cutoff_date(max_age_days))}}

\* the deregister_ami calls that returned, in the order they were made
SucceededCalls ==
  LET kept == FilterIdx([k \in 1..Len(deregister_calls) |->
                           deregister_calls[k] \notin deregister_failed], 1)
  IN  [k \in 1..Len(kept) |-> deregister_calls[kept[k]]]

\* C22: in cleanup_old_backups a deletion that fails does not stop the pass:
\* every other entry marked for deletion is still attempted, no entry is
\* attempted twice (the failed one is not retried), and the returned list
\* holds exactly the ids whose deletion succeeded.
C22_FailedDeletionDoesNotStopThePass ==
  /\ \A i, j \in 1..Len(deregister_calls) :
       i # j => deregister_calls[i] # deregister_calls[j]
  /\ (cleanup_pc = "done" /\ deregister_failed # {}) =>
       /\ IdsOf(deregister_calls) = MarkedForDeletion
       /\ cleanup_result = SucceededCalls

\* a pass has ended in which the first deletion failed and a later one
\* succeeded and is returned
C22_Witness ==
  /\ cleanup_pc = "done"
  /\ Len(deregister_calls) >= 2
  /\ deregister_calls[1] \in deregister_failed
  /\ cleanup_result = <<deregister_calls[2]>>

\* this step is a poll of wait_for_state whose describe call raised
PollRaised ==
  /\ mode \in SingleModes \cup {"wait_for_state"}
  /\ pc[1] = "describe_instance"
  /\ pc'[1] # "describe_instance"
  /\ aws_state'[1] = "raise"

\* C23: a transport error raised by the describe call during a poll of
\* wait_for_state does not end the wait: the loop sleeps and goes on to the
\* next poll.
C23_PollErrorDoesNotEndTheWait ==
  [][PollRaised => pc'[1] = "poll_sleep"]_vars

\* the states that end a wait for target_state at once
EndingStates == {target_state} \cup InvalidStates(target_state)

ReadinessWaitTimedOut ==
  /\ mode \in {"start_instance", "restart_instance"}
  /\ wait_for_ready
  /\ pc[1] = "done"
  /\ timeout_time[1] # NoTime
  /\ now >= timeout_time[1]
  /\ current_state[1] # "running"

\* C25: when the readiness wait inside start_instance or restart_instance
\* passes its deadline without the instance reaching Running, the call returns
\* an OperationResult (no exception escapes) whose status is Failed or Timeout
\* with a non-empty error message.
C25_ReadinessTimeoutGivesFailedResult ==
  ReadinessWaitTimedOut =>
    /\ results[1].kind = "operation_result"
    /\ results[1].result.status \in {"failed", "timeout"}
    /\ NonEmpty(results[1].result.error_message)

\* a restart whose readiness wait polled until the deadline, the instance
\* still Pending, and returned a Failed result
C25_Witness ==
  /\ ReadinessWaitTimedOut
  /\ mode = "restart_instance"
  /\ current_state[1] = "pending"
  /\ results[1].result.status = "failed"
  /\ results[1].result.error_message = NotReadyAfterRestartText

\* the state of the workflow with id WorkflowId
ThisWorkflow ==
  <<wf_pc, workflow_status, phase_index, phase_results, completed_phases, started,
    tasks_left, is_cancelled(cancellation_tokens), WorkflowId \in active_workflows>>

\* this step sets the cancellation flag of the other workflow
CancelsOther ==
  /\ OtherWorkflowId \in DOMAIN cancellation_tokens
  /\ OtherWorkflowId \in DOMAIN cancellation_tokens'
  /\ ~cancellation_tokens[OtherWorkflowId]
  /\ cancellation_tokens'[OtherWorkflowId]

\* C26: two workflows running at the same time in one orchestrator are
\* independent: a cancel of the other workflow changes nothing of this one,
\* and as long as this one has not been cancelled itself it is never stopped
\* or failed by a cancellation and ends, as without any cancel, Completed with
\* every configured phase executed in turn.
C26_CancelLeavesOtherWorkflowAlone ==
  /\ [][CancelsOther => UNCHANGED ThisWorkflow]_vars
  /\ [](cancelled_at = NoTime =>
          /\ wf_pc # "raised"
          /\ workflow_status # "failed"
          /\ wf_pc \in {"report", "returned"} =>
               /\ started = wf_config.phases
               /\ workflow_status = "completed")

\* the other workflow was cancelled while this one was in its first phase; this
\* one went on to its second phase, its own flag unset
C26_Witness ==
  /\ wf_pc = "phase"
  /\ phase_index = 2
  /\ cancelled_at = NoTime
  /\ OtherWorkflowId \in DOMAIN cancellation_tokens
  /\ cancellation_tokens[OtherWorkflowId]
  /\ ~cancellation_tokens[WorkflowId]

\* the tasks whose ServerOperation has been built: registered or in the history
BuiltOperations == active_operations \cup IdsOf(operation_history)

\* C27: for every operation built by start_instance, stop_instance or
\* restart_instance the target state is the one its operation type fixes
\* (start -> running, stop -> stopped, restart -> running), at every moment of
\* the operation's life.
C27_TargetStateFollowsOperationType ==
  \A t \in BuiltOperations :
    /\ op[t].operation_type \in {"start", "stop", "restart"}
    /\ op[t].operation_type = "start" => op[t].target_state = "running"
    /\ op[t].operation_type = "stop" => op[t].target_state = "stopped"
    /\ op[t].operation_type = "restart" => op[t].target_state = "running"

\* a stop operation has gone through its whole life, cancelled on the way, and
\* sits in the history with target state Stopped
C27_Witness ==
  /\ mode = "stop_instance"
  /\ operation_history = <<1>>
  /\ op[1].operation_type = "stop"
  /\ op[1].target_state = "stopped"
  /\ op[1].status # "running"
  /\ NonEmpty(op[1].error_message)

\* the status changes of a Backup the state machine allows
BackupTransitions ==
  {<<"pending", "creating">>, <<"creating", "available">>, <<"creating", "failed">>}

\* C28: every change of a Backup's status is one of Pending -> Creating,
\* Creating -> Available (with the ami_id recorded) or Creating -> Failed.
C28_BackupStatusChangesFollowTheStateMachine ==
  [][(mode = "wait_for_completion" /\ backup'[1].status # backup[1].status) =>
       /\ <<backup[1].status, backup'[1].status>> \in BackupTransitions
       /\ backup'[1].status = "available" => backup'[1].ami_id # None]_vars

\* how many of is_in_progress, is_completed, is_failed hold of a Backup
StatusPropertiesHolding(b) ==
  (IF is_in_progress(b) THEN 1 ELSE 0) + (IF is_completed(b) THEN 1 ELSE 0)
    + (IF is_failed(b) THEN 1 ELSE 0)

\* C29: for every Backup status at most one of is_in_progress, is_completed
\* and is_failed is true: is_in_progress holds exactly in Creating,
\* is_completed exactly in Available, is_failed in Failed, and none of the
\* three holds in Pending.
C29_StatusPropertiesAreExclusive ==
  mode = "wait_for_completion" =>
    LET b == backup[1] IN
      /\ StatusPropertiesHolding(b) <= 1
      /\ is_in_progress(b) <=> b.status = "creating"
      /\ is_completed(b) <=> b.status = "available"
      /\ b.status = "failed" => is_failed(b)
      /\ b.status = "pending" => StatusPropertiesHolding(b) = 0

\* a Backup that was Pending has been polled and is now Creating: in progress,
\* neither completed nor failed
C29_Witness ==
  /\ mode = "wait_for_completion"
  /\ aws_state[1] = "pending"
  /\ backup[1].status = "creating"
  /\ backup[1].start_time = NoTime
  /\ is_in_progress(backup[1])
  /\ ~is_completed(backup[1])
  /\ ~is_failed(backup[1])

\* every enabled landing zone was scanned, there was at least one, and every
\* scan raised: _run_scanner_phase has ended with all_instances empty
DiscoveryFailedForEveryScope ==
  /\ phase_results["scanner"] \in {"completed", "failed"}
  /\ scan_outcomes # <<>>
  /\ \A i \in DOMAIN scan_outcomes : scan_outcomes[i].raised

\* a phase entered after the scanner phase is in flight
FollowingPhaseInFlight ==
  /\ wf_pc = "phase"
  /\ wf_config.phases[phase_index] # "scanner"
  /\ \E i \in 1..(Len(started) - 1) : started[i] = "scanner"

UnhealthyInstances ==
  {validation_results[k].instance :
     k \in {j \in DOMAIN validation_results : ~validation_results[j].overall_healthy}}

\* C31: with fail_on_validation_error set, once an instance has failed its
\* health check no later instance is health-checked, and the validation phase
\* does not end with status completed.
C31_FirstUnhealthyInstanceStopsValidation ==
  (fail_on_validation_error /\ UnhealthyInstances # {}) =>
    /\ \A i \in UnhealthyInstances :
         \A k \in DOMAIN health_checked : health_checked[k] <= i
    /\ validation_status # "completed"

\* C32: a fan-out batch eventually returns when every external call returns or
\* raises.  Stated through what it needs at every moment: while gather is
\* waiting for the tasks of the batch, some step of the batch can be taken (a
\* task can take a permit, an external call can end, or gather can hand over).
C32_BatchCanAlwaysProceed ==
  batch_pc = "gather" => ENABLED NextFanOut

\* C33: the list create_multiple_backups returns has one Backup for each
\* instance that requires a backup, in the order of the input list: its i-th
\* Backup, also a failed one built for a task that raised, carries the id of
\* the i-th such instance, in whatever order the tasks ran and ended.
C33_BackupsComeInInputOrder ==
  (mode = "backup" /\ batch_pc = "returned") =>
    /\ eligible = FilterIdx([i \in Tasks |-> instances[i].requires_backup], 1)
    /\ Len(batch_out) = Len(eligible)
    /\ \A i \in 1..Len(batch_out) : batch_out[i].instance_id = eligible[i]

\* the first of several tasks raised, a later one returned, and the first
\* input instance was not backed up
C33_Witness ==
  /\ mode = "backup"
  /\ batch_pc = "returned"
  /\ Len(batch_out) >= 2
  /\ eligible[1] # 1
  /\ results[1].kind = "exception"
  /\ \E i \in 2..Len(batch_out) : results[i].kind # "exception"

OperationFailureStatuses == {"failed", "timeout", "cancelled"}

\* C35: whenever start_instance, stop_instance or restart_instance has
\* returned an OperationResult, the Operation moved to the history matches it:
\* the Operation is Completed only if the result is Completed, and it has a
\* failure status whenever the result is Failed.
C35_HistoryMatchesReturnedResult ==
  \A t \in Tasks :
    (mode \in SingleModes /\ pc[t] = "done" /\ results[t].kind = "operation_result") =>
      /\ op[t].status = "completed" => results[t].result.status = "completed"
      /\ results[t].result.status = "failed" => op[t].status \in OperationFailureStatuses

\* the WorkflowResult statuses that are neither Pending nor Running
WorkflowTerminal == WorkflowStatus \ {"pending", "running"}

\* end_time of the WorkflowResult is set: mark_completed, mark_failed and
\* mark_partial_success are its only writers, each together with the status
WorkflowEndTimeSet == workflow_status \in {"completed", "failed", "partial_success"}

\* C36: every RunWorkflow call that passes the configuration validation ends
\* by returning a WorkflowResult whose status is terminal (neither Pending nor
\* Running) and whose end time is set, also when the run was cancelled at a
\* phase boundary.
C36_ValidRunReturnsTerminalResult ==
  wf_pc \in {"returned", "raised"} =>
    /\ WorkflowReturned
    /\ workflow_status \in WorkflowTerminal
    /\ WorkflowEndTimeSet

\* the run of the workflow is on: registered at lines 83-85, its phases or its
\* report under way, the finally block not yet reached
WorkflowRunning == wf_pc \in {"phase", "report"}

\* what cancel_workflow(WorkflowId) returns (lines 169-173)
CancelReturns == WorkflowId \in DOMAIN cancellation_tokens

\* C37: a workflow is listed by ListActiveWorkflows, and Cancel on its id
\* returns true, exactly from the start of its run until the run ends; after
\* RunWorkflow has ended in any way (completed, failed or cancelled) the
\* workflow has no entry left in the registries and Cancel on its id returns
\* false.
C37_RegisteredExactlyWhileRunning ==
  /\ WorkflowId \in active_workflows <=> WorkflowRunning
  /\ CancelReturns <=> WorkflowRunning
  /\ ENABLED cancel_workflow <=> WorkflowRunning

\* a cancelled run has ended, returning or raising, and is registered nowhere
C37_Witness ==
  /\ wf_pc \in {"returned", "raised"}
  /\ cancelled_at # NoTime
  /\ WorkflowId \notin active_workflows
  /\ ~CancelReturns

\* len(phase_result.errors) after the scans with these outcomes: one add_error
\* for each scan that raised (lines 295-298)
RECURSIVE scan_errors(_)
scan_errors(outcomes) ==
  IF outcomes = <<>> THEN 0
  ELSE (IF outcomes[1].raised THEN 1 ELSE 0) + scan_errors(Tail(outcomes))

\* the PhaseMetrics of the scanner phase (lines 305-309)
scanner_phase_metrics(outcomes) ==
  [instances_processed   |-> all_instances(outcomes),
   successful_operations |-> all_instances(outcomes),
   failed_operations     |-> scan_errors(outcomes)]

progress_completed_phases ==
  IF WorkflowId \in active_workflows THEN completed_phases ELSE <<>>

\* C39: at every moment of a run the list of completed phases reported by
\* GetProgress contains only phases whose PhaseResult has status Completed; a
\* phase that ended Failed is never counted as completed in the percentage.
C39_ProgressCountsCompletedPhasesOnly ==
  \A i \in DOMAIN progress_completed_phases :
    phase_results[progress_completed_phases[i]] = "completed"

\* the Backups create_multiple_backups hands to the waits of the backup phase
\* (lines 348-352): the Backup of a create_backup call that returned, and the
\* Failed record built for one that raised
PhaseBackups ==
  {ami_created(mark_started(NewBackup(1), 0), "ami"),
   failed_backup(1, <<"create", "failed">>)}

\* the wait of the backup phase for one Backup of its batch (lines 355-367),
\* with the timeout of a configuration that passed validate()
InitPhaseWait ==
  /\ InitWaitWith(PhaseBackups, ImageAnswers)
  /\ timeout_minutes >= 1

SpecPhaseWait == InitPhaseWait /\ [][NextWait]_vars

\* the wait for the Backup of the phase has ended
PhaseWaitEnded == mode = "wait_for_completion" /\ pc[1] = "done"

\* failed_backups of the phase metrics, counted over result list <<b>>
\* (lines 381-383)
failed_backups(b) == 1 - (IF ~is_failed(b) THEN 1 ELSE 0)

\* C40: when the backup phase ends with waiting enabled, every Backup in its
\* result is in a terminal state (Available or Failed), and the failed count
\* of the phase equals the number of Backups for which wait_for_completion
\* returned false, the Failed records of raised create calls included.
C40_FailedCountIsNumberOfFailedWaits ==
  PhaseWaitEnded =>
    /\ backup[1].status \in {"available", "failed"}
    /\ failed_backups(backup[1]) = (IF results[1].value THEN 0 ELSE 1)


====
